---- MODULE Spec2Model ----
(***************************************************************************)
(* Semantic response cache of the Android automation agent:                *)
(*   agent/middleware/key_generator.py   SmartKeyGenerator                 *)
(*   agent/middleware/cache_manager.py   CacheManager (SQLite table)       *)
(*   agent/middleware/caching_brain.py   CachingBrain (the middleware)     *)
(*                                                                         *)
(* Conventions of the model                                                *)
(*  - A Python str is a TLA+ string.  Where the code inspects its           *)
(*    characters (lower, strip, re.sub, split, in, slicing) the operators  *)
(*    work on the sequence of its one-character strings, Chars(s), and     *)
(*    Str(chars) is the str again.                                         *)
(*  - hashlib digests are collision-free in the model: a digest is the     *)
(*    tag of the hash followed by the text that was hashed.                *)
(*  - Optional[T] is a sequence: <<>> is None and <<v>> is the value v.    *)
(*  - Confidence values are in hundredths (0.7 is 70).                     *)
(*  - Timestamps are whole seconds.                                        *)
(***************************************************************************)
EXTENDS Integers, Sequences, FiniteSets, TLC

(***************************************************************************)
(* Python str helpers                                                      *)
(***************************************************************************)
UpperChars == <<"A","B","C","D","E","F","G","H","I","J","K","L","M",
                "N","O","P","Q","R","S","T","U","V","W","X","Y","Z">>

LowerChars == <<"a","b","c","d","e","f","g","h","i","j","k","l","m",
                "n","o","p","q","r","s","t","u","v","w","x","y","z">>

\* str.lower() on one character
LowerChar(c) ==
    IF \E i \in 1..26 : UpperChars[i] = c
    THEN LowerChars[CHOOSE i \in 1..26 : UpperChars[i] = c]
    ELSE c

\* str.lower()
Lower(s) == [i \in 1..Len(s) |-> LowerChar(s[i])]

\* the characters \s matches and str.strip() / str.split() remove
IsSpace(c) == c \in {" ", "\t", "\n"}

\* the character class [.?!,;:]
IsPunct(c) == c \in {".", "?", "!", ",", ";", ":"}

RECURSIVE LStrip(_)
LStrip(s) == IF s # <<>> /\ IsSpace(s[1]) THEN LStrip(Tail(s)) ELSE s

RECURSIVE RStrip(_)
RStrip(s) ==
    IF s # <<>> /\ IsSpace(s[Len(s)]) THEN RStrip(SubSeq(s, 1, Len(s) - 1)) ELSE s

\* str.strip()
Strip(s) == LStrip(RStrip(s))

\* re.sub(r'[.?!,;:]+$', '', s): drop the run of punctuation that ends s
RECURSIVE StripTrailingPunct(_)
StripTrailingPunct(s) ==
    IF s # <<>> /\ IsPunct(s[Len(s)])
    THEN StripTrailingPunct(SubSeq(s, 1, Len(s) - 1))
    ELSE s

\* re.sub(r'\s+', ' ', s): every run of whitespace becomes one space
RECURSIVE CollapseSpaces(_)
CollapseSpaces(s) ==
    IF s = <<>> THEN <<>>
    ELSE IF IsSpace(s[1])
         THEN <<" ">> \o CollapseSpaces(LStrip(s))
         ELSE <<s[1]>> \o CollapseSpaces(Tail(s))

\* kw in s (substring test)
Contains(s, kw) ==
    \E i \in 1..(Len(s) - Len(kw) + 1) : SubSeq(s, i, i + Len(kw) - 1) = kw

\* len(s.split()): the number of maximal runs of non-whitespace characters
TokenCount(s) ==
    Cardinality({i \in 1..Len(s) :
                    /\ ~IsSpace(s[i])
                    /\ (i = 1 \/ IsSpace(s[i - 1]))})

\* s[:n]
Prefix(s, n) == SubSeq(s, 1, IF Len(s) < n THEN Len(s) ELSE n)

\* the str made of the characters of s, as one TLA+ string
RECURSIVE Str(_)
Str(s) == IF s = <<>> THEN "" ELSE s[1] \o Str(Tail(s))

\* sum(1 for ind in indicators if ind in s)
CountMatches(s, indicators) ==
    Cardinality({k \in 1..Len(indicators) : Contains(s, indicators[k])})

Min(a, b) == IF a < b THEN a ELSE b


(***************************************************************************)
(* The texts of the model: the queries think is called with and the        *)
(* contents the wrapped brain answers with                                 *)
(***************************************************************************)
\* test_caching.py:95, "How to center div in CSS?": 2 factual matches, 6 tokens
Q_CSS_chars == <<"H", "o", "w", " ", "t", "o", " ", "c", "e", "n", "t", "e", "r", " ",
           "d", "i", "v", " ", "i", "n", " ", "C", "S", "S", "?">>

\* test_caching.py:105, "how to center div in css?"
Q_CSS_LOWER_chars == <<"h", "o", "w", " ", "t", "o", " ", "c", "e", "n", "t", "e", "r", " ",
                 "d", "i", "v", " ", "i", "n", " ", "c", "s", "s", "?">>

\* "css tips": 1 factual match, 2 tokens
Q_TIPS_chars == <<"c", "s", "s", " ", "t", "i", "p", "s">>

\* "What time is it?": blacklist keyword "what time"
Q_TIME_chars == <<"W", "h", "a", "t", " ", "t", "i", "m", "e", " ", "i", "s", " ", "i", "t", "?">>

\* "my css": personal indicator "my"
Q_MY_chars == <<"m", "y", " ", "c", "s", "s">>

\* "explain css api": 3 factual matches, 3 tokens
Q_API_chars == <<"e", "x", "p", "l", "a", "i", "n", " ", "c", "s", "s", " ", "a", "p", "i">>

\* "explain css api ": the same with a trailing space, which makes the
\* personal indicator "i " match
Q_API_SP_chars == <<"e", "x", "p", "l", "a", "i", "n", " ", "c", "s", "s", " ", "a", "p", "i", " ">>

\* the content of the results of the wrapped brain
C_OK_chars == <<"o", "k">>

C_NO_chars == <<"n", "o">>

C_DONE_chars == <<"d", "o", "n", "e">>

\* cliproxy.py:138, "API call failed"
C_API_FAILED_chars == <<"A", "P", "I", " ", "c", "a", "l", "l", " ", "f", "a", "i", "l", "e", "d">>

\* the roles of the messages of conversation_history
UserRole_chars == <<"u", "s", "e", "r">>

AssistantRole_chars == <<"a", "s", "s", "i", "s", "t", "a", "n", "t">>

\* "css tips ?": whitespace before the trailing punctuation
Q_SPACED_chars ==
    <<"c", "s", "s", " ", "t", "i", "p", "s", " ", "?">>

\* "What  time is it?": the words of "what time" two spaces apart
Q_TIME_GAP_chars ==
    <<"W", "h", "a", "t", " ", " ", "t", "i", "m", "e", " ", "i", "s", " ",
      "i", "t", "?">>

\* "explain my css today": blacklist keyword "today" beside 1 personal and
\* 2 factual matches
Q_TODAY_chars ==
    <<"e", "x", "p", "l", "a", "i", "n", " ", "m", "y", " ", "c", "s", "s",
      " ", "t", "o", "d", "a", "y">>

\* "my account history": 3 personal matches
Q_ACCT_chars ==
    <<"m", "y", " ", "a", "c", "c", "o", "u", "n", "t", " ", "h", "i", "s",
      "t", "o", "r", "y">>

\* "tell us a fun fact about cats": 7 tokens, no indicator
Q_LONG_chars ==
    <<"t", "e", "l", "l", " ", "u", "s", " ", "a", " ", "f", "u", "n", " ",
      "f", "a", "c", "t", " ", "a", "b", "o", "u", "t", " ", "c", "a", "t",
      "s">>

\* "tell us a fun fact about css": 7 tokens, 1 factual match
Q_LONG_CSS_chars ==
    <<"t", "e", "l", "l", " ", "u", "s", " ", "a", " ", "f", "u", "n", " ",
      "f", "a", "c", "t", " ", "a", "b", "o", "u", "t", " ", "c", "s", "s">>

\* the texts normalize_query and detect_scope are applied to directly
\* "c0ffee01|empty|my css": a personal query that begins like the tail of a
\* context-key material (conversation id, history fingerprint, query)
Q_PIPE_chars ==
    <<"c", "0", "f", "f", "e", "e", "0", "1", "|", "e", "m", "p", "t", "y", "|",
      "m", "y", " ", "c", "s", "s">>

TextQueryChars ==
    {Q_SPACED_chars, Q_TIME_GAP_chars, Q_TODAY_chars, Q_ACCT_chars, Q_LONG_chars,
     Q_LONG_CSS_chars}

AllQueryChars == {Q_CSS_chars, Q_CSS_LOWER_chars, Q_TIPS_chars, Q_TIME_chars,
                  Q_MY_chars, Q_API_chars, Q_API_SP_chars, Q_PIPE_chars}
                 \cup TextQueryChars

AllTextChars == AllQueryChars \cup {C_OK_chars, C_NO_chars, C_DONE_chars,
                                    C_API_FAILED_chars, <<>>,
                                    UserRole_chars, AssistantRole_chars}

Q_CSS == Str(Q_CSS_chars)

Q_CSS_LOWER == Str(Q_CSS_LOWER_chars)

Q_TIPS == Str(Q_TIPS_chars)

Q_TIME == Str(Q_TIME_chars)

Q_MY == Str(Q_MY_chars)

Q_API == Str(Q_API_chars)

Q_API_SP == Str(Q_API_SP_chars)

C_OK == Str(C_OK_chars)

C_NO == Str(C_NO_chars)

C_DONE == Str(C_DONE_chars)

C_API_FAILED == Str(C_API_FAILED_chars)

UserRole == Str(UserRole_chars)

AssistantRole == Str(AssistantRole_chars)

AllQueries == {Str(c) : c \in AllQueryChars}

AllTexts == {Str(c) : c \in AllTextChars}

\* the characters of a text of the model
CharsTable == [t \in AllTexts |-> CHOOSE c \in AllTextChars : Str(c) = t]

Chars(t) == CharsTable[t]

(***************************************************************************)
(* key_generator.py                                                        *)
(* The three keyword lists, in source order.  The queries of the model are  *)
(* ASCII text, in which a keyword holding a non-ASCII letter (the           *)
(* Vietnamese entries of each list) cannot occur as a substring; the lists  *)
(* below hold the ASCII entries, which are the ones that can match.         *)
(***************************************************************************)
\* key_generator.py: BLACKLIST_KEYWORDS
BLACKLIST_KEYWORDS ==
    << <<"w", "h", "a", "t", " ", "t", "i", "m", "e">>,
       <<"c", "u", "r", "r", "e", "n", "t", " ", "t", "i", "m", "e">>,
       <<"t", "o", "d", "a", "y">>,
       <<"n", "o", "w">>,
       <<"y", "e", "s", "t", "e", "r", "d", "a", "y">>,
       <<"b", "i", "t", "c", "o", "i", "n">>,
       <<"s", "t", "o", "c", "k">>,
       <<"p", "r", "i", "c", "e">>,
       <<"c", "r", "y", "p", "t", "o">>,
       <<"e", "x", "c", "h", "a", "n", "g", "e", " ", "r", "a", "t", "e">>,
       <<"w", "e", "a", "t", "h", "e", "r">>,
       <<"t", "e", "m", "p", "e", "r", "a", "t", "u", "r", "e">>,
       <<"n", "e", "w", "s">>,
       <<"l", "i", "v", "e">>,
       <<"s", "t", "r", "e", "a", "m">>,
       <<"r", "e", "a", "l", "-", "t", "i", "m", "e">>,
       <<"t", "r", "e", "n", "d", "i", "n", "g">> >>

\* key_generator.py: PERSONAL_INDICATORS
PERSONAL_INDICATORS ==
    << <<"p", "r", "o", "f", "i", "l", "e">>,
       <<"m", "y">>,
       <<"m", "i", "n", "e">>,
       <<"i", " ">>,
       <<"i", "'">>,
       <<"m", "e", " ">>,
       <<"a", "c", "c", "o", "u", "n", "t">>,
       <<"h", "i", "s", "t", "o", "r", "y">>,
       <<"f", "a", "v", "o", "r", "i", "t", "e">> >>

\* key_generator.py: FACTUAL_INDICATORS
FACTUAL_INDICATORS ==
    << <<"p", "y", "t", "h", "o", "n">>,
       <<"j", "a", "v", "a", "s", "c", "r", "i", "p", "t">>,
       <<"r", "u", "s", "t">>,
       <<"g", "o", "l", "a", "n", "g">>,
       <<"j", "a", "v", "a">>,
       <<"c", "+", "+">>,
       <<"t", "y", "p", "e", "s", "c", "r", "i", "p", "t">>,
       <<"f", "u", "n", "c", "t", "i", "o", "n">>,
       <<"c", "l", "a", "s", "s">>,
       <<"m", "e", "t", "h", "o", "d">>,
       <<"a", "l", "g", "o", "r", "i", "t", "h", "m">>,
       <<"c", "o", "d", "e">>,
       <<"s", "y", "n", "t", "a", "x">>,
       <<"e", "r", "r", "o", "r">>,
       <<"h", "t", "m", "l">>,
       <<"c", "s", "s">>,
       <<"a", "p", "i">>,
       <<"d", "a", "t", "a", "b", "a", "s", "e">>,
       <<"s", "q", "l">>,
       <<"j", "s", "o", "n">>,
       <<"r", "e", "g", "e", "x">>,
       <<"w", "h", "a", "t", " ", "i", "s">>,
       <<"h", "o", "w", " ", "t", "o">>,
       <<"e", "x", "p", "l", "a", "i", "n">>,
       <<"d", "e", "f", "i", "n", "e">>,
       <<"t", "u", "t", "o", "r", "i", "a", "l">> >>

\* SmartKeyGenerator(history_window=5), caching_brain.py:38
HISTORY_WINDOW == 5

\* SmartKeyGenerator.normalize_query
normalize_query(query) ==
    CollapseSpaces(StripTrailingPunct(Strip(Lower(query))))

\* SmartKeyGenerator.is_blacklisted
is_blacklisted(query) ==
    LET query_lower == Lower(query)
    IN  \E k \in 1..Len(BLACKLIST_KEYWORDS) :
            Contains(query_lower, BLACKLIST_KEYWORDS[k])

\* detect_scope trying the short follow-up rule before the rule of two
\* factual matches
detect_scope_follow_up_first(query, history) ==
    LET query_lower    == Lower(query)
        personal_score == CountMatches(query_lower, PERSONAL_INDICATORS)
        factual_score  == CountMatches(query_lower, FACTUAL_INDICATORS)
        has_context    == Len(history) > 0
        is_short_query == TokenCount(query) <= 5
    IN  IF is_blacklisted(query)
        THEN [scope |-> "blacklisted", confidence |-> 100]
        ELSE IF personal_score > 0
        THEN [scope |-> "contextual",
              confidence |-> Min(90 + personal_score * 5, 100)]
        ELSE IF is_short_query /\ has_context
        THEN [scope |-> "contextual", confidence |-> 80]
        ELSE IF factual_score >= 2
        THEN [scope |-> "shared",
              confidence |-> Min(70 + factual_score * 10, 100)]
        ELSE IF factual_score = 1
        THEN [scope |-> "shared", confidence |-> 60]
        ELSE [scope |-> "shared", confidence |-> 50]

\* detect_scope without the min(..., 1.0) that caps the confidence
detect_scope_uncapped(query, history) ==
    LET query_lower    == Lower(query)
        personal_score == CountMatches(query_lower, PERSONAL_INDICATORS)
        factual_score  == CountMatches(query_lower, FACTUAL_INDICATORS)
        has_context    == Len(history) > 0
        is_short_query == TokenCount(query) <= 5
    IN  IF is_blacklisted(query)
        THEN [scope |-> "blacklisted", confidence |-> 100]
        ELSE IF personal_score > 0
        THEN [scope |-> "contextual", confidence |-> 90 + personal_score * 5]
        ELSE IF factual_score >= 2
        THEN [scope |-> "shared", confidence |-> 70 + factual_score * 10]
        ELSE IF is_short_query /\ has_context
        THEN [scope |-> "contextual", confidence |-> 80]
        ELSE IF factual_score = 1
        THEN [scope |-> "shared", confidence |-> 60]
        ELSE [scope |-> "shared", confidence |-> 50]

\* SmartKeyGenerator.detect_scope: (scope, confidence)
detect_scope(query, history) ==
    LET query_lower    == Lower(query)
        personal_score == CountMatches(query_lower, PERSONAL_INDICATORS)
        factual_score  == CountMatches(query_lower, FACTUAL_INDICATORS)
        has_context    == Len(history) > 0
        is_short_query == TokenCount(query) <= 5
    IN  IF is_blacklisted(query)
        THEN [scope |-> "blacklisted", confidence |-> 100]
        ELSE IF personal_score > 0
        THEN [scope |-> "contextual",
              confidence |-> Min(90 + personal_score * 5, 100)]
        ELSE IF factual_score >= 2
        THEN [scope |-> "shared",
              confidence |-> Min(70 + factual_score * 10, 100)]
        ELSE IF is_short_query /\ has_context
        THEN [scope |-> "contextual", confidence |-> 80]
        ELSE IF factual_score = 1
        THEN [scope |-> "shared", confidence |-> 60]
        ELSE [scope |-> "shared", confidence |-> 50]

\* re.sub(r'\s+', ' ', content[:20].lower().strip())
Snippet(content) == CollapseSpaces(Strip(Lower(Prefix(content, 20))))

\* s[:n] of a text of the model
Truncate(t, n) == IF Len(t) <= n THEN t ELSE Str(Prefix(Chars(t), n))

\* normalize_query, detect_scope and the history snippet are fixed functions
\* of the text they are given; each is evaluated once for every text of the
\* model and looked up afterwards.
NormalizeTable == [t \in AllQueries |-> Str(normalize_query(Chars(t)))]

ScopeTable ==
    [t \in AllQueries |->
        [has_context \in BOOLEAN |->
            detect_scope(Chars(t), IF has_context THEN <<"a message">> ELSE <<>>)]]

SnippetTable == [t \in AllTexts |-> Str(Snippet(Chars(t)))]

RoleInitialTable == [t \in {UserRole, AssistantRole} |-> Lower(Chars(t))[1]]

\* history[-self.history_window:]
\* the fingerprint taken over the whole history
Recent_unwindowed(history) == history

Recent(history) ==
    IF Len(history) <= HISTORY_WINDOW
    THEN history
    ELSE SubSeq(history, Len(history) - HISTORY_WINDOW + 1, Len(history))

\* msg["role"][0].lower() of every message of recent, concatenated
RECURSIVE RoleSeq(_)
RoleSeq(recent) ==
    IF recent = <<>> THEN ""
    ELSE RoleInitialTable[recent[1].role] \o RoleSeq(Tail(recent))

\* '|'.join(parts)
RECURSIVE JoinSnippets(_)
JoinSnippets(recent) ==
    IF recent = <<>> THEN ""
    ELSE IF Len(recent) = 1 THEN SnippetTable[recent[1].content]
    ELSE SnippetTable[recent[1].content] \o "|" \o JoinSnippets(Tail(recent))

\* hashlib.md5(text.encode()).hexdigest()[:12]
Md5Hex12(text) == "md5[" \o text \o "]"

\* hashlib.sha256(text.encode()).hexdigest()[:16]
Sha256Hex16(text) == "sha256[" \o text \o "]"

\* SmartKeyGenerator.normalize_history_hash
normalize_history_hash(history) ==
    IF history = <<>> THEN "empty"
    ELSE LET recent == Recent(history)
             fingerprint == RoleSeq(recent) \o "|" \o ToString(Len(recent))
                            \o "|" \o JoinSnippets(recent)
         IN  Md5Hex12(fingerprint)

\* generate_keys leaving the user out of context_material
generate_keys_context_without_user(user_id, conversation_id, user_query, conversation_history, system_prompt_hash) ==
    LET normalized == NormalizeTable[user_query]
        sc         == ScopeTable[user_query][Len(conversation_history) > 0]
        content_material == system_prompt_hash.head8 \o "|" \o normalized
        history_fp == normalize_history_hash(conversation_history)
        context_material == conversation_id \o "|" \o history_fp \o "|"
                            \o normalized
    IN  IF sc.scope = "blacklisted"
        THEN [content_key |-> <<>>, context_key |-> <<>>,
              scope |-> sc.scope, confidence |-> sc.confidence]
        ELSE [content_key |-> <<"content:" \o Sha256Hex16(content_material)>>,
              context_key |-> <<"context:" \o Sha256Hex16(context_material)>>,
              scope |-> sc.scope, confidence |-> sc.confidence]

\* generate_keys putting the user into content_material
generate_keys_content_with_user(user_id, conversation_id, user_query, conversation_history, system_prompt_hash) ==
    LET normalized == NormalizeTable[user_query]
        sc         == ScopeTable[user_query][Len(conversation_history) > 0]
        content_material == user_id \o "|" \o system_prompt_hash.head8 \o "|"
                            \o normalized
        history_fp == normalize_history_hash(conversation_history)
        context_material == user_id \o "|" \o conversation_id \o "|"
                            \o history_fp \o "|" \o normalized
    IN  IF sc.scope = "blacklisted"
        THEN [content_key |-> <<>>, context_key |-> <<>>,
              scope |-> sc.scope, confidence |-> sc.confidence]
        ELSE [content_key |-> <<"content:" \o Sha256Hex16(content_material)>>,
              context_key |-> <<"context:" \o Sha256Hex16(context_material)>>,
              scope |-> sc.scope, confidence |-> sc.confidence]

\* generate_keys leaving the prompt hash out of content_material
generate_keys_content_without_prompt(user_id, conversation_id, user_query, conversation_history, system_prompt_hash) ==
    LET normalized == NormalizeTable[user_query]
        sc         == ScopeTable[user_query][Len(conversation_history) > 0]
        content_material == normalized
        history_fp == normalize_history_hash(conversation_history)
        context_material == user_id \o "|" \o conversation_id \o "|"
                            \o history_fp \o "|" \o normalized
    IN  IF sc.scope = "blacklisted"
        THEN [content_key |-> <<>>, context_key |-> <<>>,
              scope |-> sc.scope, confidence |-> sc.confidence]
        ELSE [content_key |-> <<"content:" \o Sha256Hex16(content_material)>>,
              context_key |-> <<"context:" \o Sha256Hex16(context_material)>>,
              scope |-> sc.scope, confidence |-> sc.confidence]

\* SmartKeyGenerator.generate_keys: KeyResult
generate_keys(user_id, conversation_id, user_query, conversation_history, system_prompt_hash) ==
    LET normalized == NormalizeTable[user_query]
        sc         == ScopeTable[user_query][Len(conversation_history) > 0]
        content_material == system_prompt_hash.head8 \o "|" \o normalized
        history_fp == normalize_history_hash(conversation_history)
        context_material == user_id \o "|" \o conversation_id \o "|"
                            \o history_fp \o "|" \o normalized
    IN  IF sc.scope = "blacklisted"
        THEN [content_key |-> <<>>, context_key |-> <<>>,
              scope |-> sc.scope, confidence |-> sc.confidence]
        ELSE [content_key |-> <<"content:" \o Sha256Hex16(content_material)>>,
              context_key |-> <<"context:" \o Sha256Hex16(context_material)>>,
              scope |-> sc.scope, confidence |-> sc.confidence]

(***************************************************************************)
(* brain.py: ThinkResult, and what a wrapped Brain.think can do            *)
(***************************************************************************)
\* Python None where a str or dict is expected (tool_name, tool_args)
NoneVal == "None"

\* ThinkResult(action, tool_name, tool_args, content)
ThinkResult(action, tool_name, tool_args, content) ==
    [action |-> action, tool_name |-> tool_name, tool_args |-> tool_args,
     content |-> content]

(***************************************************************************)
(* cache_manager.py: the table cache_entries as a function key -> row      *)
(***************************************************************************)
\* CacheManager.__init__(default_ttl = 3600 * 24)
DEFAULT_TTL == 86400

\* json.dumps of a tool_args value: a tuple is written as a JSON array
JsonOfArgs(tool_args) ==
    IF tool_args = "{'at': (1, 2)}" THEN "{'at': [1, 2]}" ELSE tool_args

\* json.dumps(asdict(result)): the text of the row's value column
JsonDumps(result) ==
    [valid |-> TRUE,
     obj   |-> [action |-> result.action, tool_name |-> result.tool_name,
                tool_args |-> JsonOfArgs(result.tool_args),
                content |-> result.content]]

\* ThinkResult(**json.loads(value_json))
JsonLoads(value_json) ==
    ThinkResult(value_json.obj.action, value_json.obj.tool_name,
                value_json.obj.tool_args, value_json.obj.content)

\* the table without the row of key
DeleteRow(st, key) == [k \in (DOMAIN st) \ {key} |-> st[k]]

\* INSERT OR IGNORE for INSERT OR REPLACE: a row already there is kept
UpsertRow_keeping_first(st, key, row) ==
    [k \in (DOMAIN st) \cup {key} |-> IF k = key /\ k \notin DOMAIN st THEN row ELSE st[k]]

\* INSERT OR REPLACE of one row
UpsertRow(st, key, row) ==
    [k \in (DOMAIN st) \cup {key} |-> IF k = key THEN row ELSE st[k]]

\* cache_get deleting the row from the second of its expiry on (>= for >)
cache_get_expiring_early(st, key, t, fault) ==
    IF fault = "db_error"
    THEN [raised |-> TRUE, value |-> <<>>, store |-> st]
    ELSE IF key \notin DOMAIN st
    THEN [raised |-> FALSE, value |-> <<>>, store |-> st]
    ELSE IF t >= st[key].expires_at
    THEN [raised |-> FALSE, value |-> <<>>, store |-> DeleteRow(st, key)]
    ELSE IF st[key].value.valid
    THEN [raised |-> FALSE, value |-> <<JsonLoads(st[key].value)>>, store |-> st]
    ELSE [raised |-> FALSE, value |-> <<>>, store |-> st]

\* cache_get renewing the expiry of the row it returns
cache_get_touching(st, key, t, fault) ==
    IF fault = "db_error"
    THEN [raised |-> TRUE, value |-> <<>>, store |-> st]
    ELSE IF key \notin DOMAIN st
    THEN [raised |-> FALSE, value |-> <<>>, store |-> st]
    ELSE IF t > st[key].expires_at
    THEN [raised |-> FALSE, value |-> <<>>, store |-> DeleteRow(st, key)]
    ELSE IF st[key].value.valid
    THEN [raised |-> FALSE, value |-> <<JsonLoads(st[key].value)>>,
          store |-> [st EXCEPT ![key].expires_at = t + DEFAULT_TTL]]
    ELSE [raised |-> FALSE, value |-> <<>>, store |-> st]

\* CacheManager.get at clock reading t.  fault = "db_error": sqlite3 raises
\* inside the with block (no handler: the error leaves get and the
\* transaction is rolled back).  Result: raised, value (Optional), store.
cache_get(st, key, t, fault) ==
    IF fault = "db_error"
    THEN [raised |-> TRUE, value |-> <<>>, store |-> st]
    ELSE IF key \notin DOMAIN st
    THEN [raised |-> FALSE, value |-> <<>>, store |-> st]
    ELSE IF t > st[key].expires_at
    THEN [raised |-> FALSE, value |-> <<>>, store |-> DeleteRow(st, key)]
    ELSE IF st[key].value.valid
    THEN [raised |-> FALSE, value |-> <<JsonLoads(st[key].value)>>, store |-> st]
    ELSE [raised |-> FALSE, value |-> <<>>, store |-> st]

\* cache_set without the check of result.action (cache_manager.py:107-108)
cache_set_any_action(st, key, result, ttl, metadata, t1, t2, fault) ==
    IF fault = "db_error"
    THEN [raised |-> TRUE, store |-> st]
    ELSE [raised |-> FALSE,
          store  |-> UpsertRow(st, key,
                       [value      |-> JsonDumps(result),
                        created_at |-> t2,
                        expires_at |-> t1 + (IF ttl = <<>> \/ ttl[1] = 0
                                             THEN DEFAULT_TTL ELSE ttl[1]),
                        metadata   |-> metadata])]

\* CacheManager.set; ttl is Optional, t1 and t2 are the two time.time()
\* readings (expires_at, then created_at).  Result: raised, store.
cache_set(st, key, result, ttl, metadata, t1, t2, fault) ==
    IF result.action # "final_answer"
    THEN [raised |-> FALSE, store |-> st]
    ELSE IF fault = "db_error"
    THEN [raised |-> TRUE, store |-> st]
    ELSE LET ttl_used == IF ttl = <<>> \/ ttl[1] = 0 THEN DEFAULT_TTL ELSE ttl[1]
             row == [value      |-> JsonDumps(result),
                     created_at |-> t2,
                     expires_at |-> t1 + ttl_used,
                     metadata   |-> metadata]
         IN  [raised |-> FALSE, store |-> UpsertRow(st, key, row)]

\* cleanup deleting from the second of the expiry on (<= for <)
cleanup_at_expiry(st, t) ==
    [k \in {j \in DOMAIN st : ~(st[j].expires_at <= t)} |-> st[k]]

\* prune_to_limit deleting the newest rows (ORDER BY created_at DESC)
prune_to_limit_dropping_newest(st, max_entries) ==
    LET count == Cardinality(DOMAIN st)
    IN  IF count > max_entries
        THEN { [k \in (DOMAIN st) \ D |-> st[k]] :
                 D \in { E \in SUBSET (DOMAIN st) :
                           /\ Cardinality(E) = count - max_entries
                           /\ \A d \in E : \A k \in (DOMAIN st) \ E :
                                 st[d].created_at >= st[k].created_at } }
        ELSE {st}

\* CacheManager.cleanup at clock reading t
cleanup(st, t) ==
    [k \in {j \in DOMAIN st : ~(st[j].expires_at < t)} |-> st[k]]

\* CacheManager.prune_to_limit: the tables it can leave.  ORDER BY created_at
\* ASC LIMIT n leaves the order among equal created_at to SQLite.
prune_to_limit(st, max_entries) ==
    LET count == Cardinality(DOMAIN st)
    IN  IF count > max_entries
        THEN { [k \in (DOMAIN st) \ D |-> st[k]] :
                 D \in { E \in SUBSET (DOMAIN st) :
                           /\ Cardinality(E) = count - max_entries
                           /\ \A d \in E : \A k \in (DOMAIN st) \ E :
                                st[d].created_at <= st[k].created_at } }
        ELSE {st}

\* CachingBrain.MAX_CACHE_ENTRIES
MAX_CACHE_ENTRIES == 10000

\* what wrapped_brain.think can do (cliproxy.py CLIProxyBrain.think, and the
\* Brain interface): return a text answer, return an answer after running
\* device tools, return an error result, return a tool_call, or raise
O_ANSWER ==
    [raised |-> FALSE, tools_run |-> FALSE,
     result |-> ThinkResult("final_answer", NoneVal, NoneVal, C_OK)]

O_ANSWER2 ==
    [raised |-> FALSE, tools_run |-> FALSE,
     result |-> ThinkResult("final_answer", NoneVal, NoneVal, C_NO)]

O_TOOLS ==
    [raised |-> FALSE, tools_run |-> TRUE,
     result |-> ThinkResult("final_answer", "tap", "{'x': 1}", C_DONE)]

O_ERROR ==
    [raised |-> FALSE, tools_run |-> FALSE,
     result |-> ThinkResult("error", NoneVal, NoneVal,
                            C_API_FAILED)]

O_TOOL_CALL ==
    [raised |-> FALSE, tools_run |-> FALSE,
     result |-> ThinkResult("tool_call", "tap", "{'x': 1}", "")]

O_RAISE ==
    [raised |-> TRUE, tools_run |-> FALSE,
     result |-> ThinkResult("error", NoneVal, NoneVal, "")]


(***************************************************************************)
(* caching_brain.py                                                        *)
(***************************************************************************)
\* _call_and_record appending the user turn only
call_and_record_user_turn_only(history, user_request, o) ==
    IF o.raised
    THEN [raised |-> TRUE, result |-> <<>>, history |-> history]
    ELSE [raised  |-> FALSE,
          result  |-> <<o.result>>,
          history |-> history \o
              << [role |-> UserRole, content |-> user_request] >>]

\* CachingBrain._call_and_record; o is what wrapped_brain.think does:
\* o.raised, or o.result returned.  Result: raised, result (Optional), history.
call_and_record(history, user_request, o) ==
    IF o.raised
    THEN [raised |-> TRUE, result |-> <<>>, history |-> history]
    ELSE [raised  |-> FALSE,
          result  |-> <<o.result>>,
          history |-> history \o
              << [role |-> UserRole, content |-> user_request],
                 [role |-> AssistantRole,
                  content |-> Truncate(o.result.content, 200)] >>]

\* write_keys storing under the content key whatever the scope
write_keys_content_always(key_result, result) ==
    IF result.action # "final_answer" THEN <<>>
    ELSE key_result.content_key \o key_result.context_key

\* think, step 6: the keys think hands to cache_manager.set, in order
write_keys(key_result, result) ==
    IF result.action # "final_answer" THEN <<>>
    ELSE IF key_result.scope = "shared"
    THEN key_result.content_key \o
         (IF key_result.confidence >= 70 THEN key_result.context_key ELSE <<>>)
    ELSE IF key_result.scope = "contextual"
    THEN key_result.context_key
    ELSE <<>>

\* the cache_manager.set calls of step 6, one after the other; the first
\* that raises ends think.  Result: raised, store, done (keys written).
RECURSIVE set_all(_, _, _, _, _, _)
set_all(st, keys, result, metadata, t, fault) ==
    IF keys = <<>>
    THEN [raised |-> FALSE, store |-> st, done |-> <<>>]
    ELSE LET s == cache_set(st, keys[1], result, <<>>, metadata, t, t, fault)
         IN  IF s.raised
             THEN [raised |-> TRUE, store |-> s.store, done |-> <<>>]
             ELSE LET rest == set_all(s.store, Tail(keys), result, metadata, t, fault)
                  IN  [raised |-> rest.raised, store |-> rest.store,
                       done |-> <<keys[1]>> \o rest.done]

\* the metadata dict think attaches to what it stores
think_metadata(user_id, scope, user_request) ==
    <<[user_id |-> user_id, scope |-> scope,
       query |-> Truncate(user_request, 50)]>>

\* the element of a one-element set: Only({e(x) : x \in {v}}) is e(v) with
\* v evaluated once
Only(S) == CHOOSE x \in S : TRUE

\* think, steps 5 and 6, from the table st1 the probes left; cr is what
\* _call_and_record did, base the record of the call so far
think_miss(st1, user_id, user_request, kr, cr, t, set_fault, base) ==
    IF cr.raised
    THEN [base EXCEPT !.store = st1, !.raised = "producer",
                      !.producer_calls = 1]
    ELSE Only({ [base EXCEPT !.store = w.store, !.history = cr.history,
                             !.raised = IF w.raised THEN "storage" ELSE "no",
                             !.returned = IF w.raised THEN <<>> ELSE cr.result,
                             !.outcome = IF w.raised THEN "raised" ELSE "miss",
                             !.sets = w.done, !.producer_calls = 1] :
                w \in {set_all(st1, write_keys(kr, cr.result[1]), cr.result[1],
                               think_metadata(user_id, kr.scope, user_request),
                               t, set_fault)} })

\* think, step 4, probing the content key whatever the scope
think_content_probe_any_scope(st1, user_id, user_request, kr, cr, t, get_fault, set_fault, base) ==
    IF kr.content_key # <<>>
    THEN Only({ IF g.raised
                THEN [base EXCEPT !.store = st1, !.raised = "storage",
                                  !.gets = @ \o kr.content_key]
                ELSE IF g.value # <<>>
                THEN [base EXCEPT !.store = g.store, !.returned = g.value,
                                  !.outcome = "hit_content",
                                  !.gets = @ \o kr.content_key]
                ELSE think_miss(g.store, user_id, user_request, kr, cr, t,
                                set_fault,
                                [base EXCEPT !.gets = @ \o kr.content_key]) :
                g \in {cache_get(st1, kr.content_key[1], t, get_fault)} })
    ELSE think_miss(st1, user_id, user_request, kr, cr, t, set_fault, base)

\* think, step 4, from the table st1 the context probe left
think_content_probe(st1, user_id, user_request, kr, cr, t, get_fault, set_fault, base) ==
    IF kr.content_key # <<>> /\ kr.scope = "shared"
    THEN Only({ IF g.raised
                THEN [base EXCEPT !.store = st1, !.raised = "storage",
                                  !.gets = @ \o kr.content_key]
                ELSE IF g.value # <<>>
                THEN [base EXCEPT !.store = g.store, !.returned = g.value,
                                  !.outcome = "hit_content",
                                  !.gets = @ \o kr.content_key]
                ELSE think_miss(g.store, user_id, user_request, kr, cr, t,
                                set_fault,
                                [base EXCEPT !.gets = @ \o kr.content_key]) :
                g \in {cache_get(st1, kr.content_key[1], t, get_fault)} })
    ELSE think_miss(st1, user_id, user_request, kr, cr, t, set_fault, base)

\* think, steps 2 and 3, with the KeyResult kr of step 1
think_steps(st, user_id, history, user_request, kr, cr, t, get_fault, set_fault) ==
    LET base == [store |-> st, history |-> history, raised |-> "no",
                 returned |-> <<>>, outcome |-> "raised", scope |-> kr.scope,
                 confidence |-> kr.confidence, gets |-> <<>>, sets |-> <<>>,
                 producer_calls |-> 0]
    IN  IF kr.scope = "blacklisted"
        THEN IF cr.raised
             THEN [base EXCEPT !.raised = "producer", !.producer_calls = 1]
             ELSE [base EXCEPT !.history = cr.history, !.returned = cr.result,
                               !.outcome = "blacklisted", !.producer_calls = 1]
        ELSE IF kr.context_key # <<>>
        THEN Only({ IF g.raised
                    THEN [base EXCEPT !.raised = "storage",
                                      !.gets = kr.context_key]
                    ELSE IF g.value # <<>>
                    THEN [base EXCEPT !.store = g.store, !.returned = g.value,
                                      !.outcome = "hit_context",
                                      !.gets = kr.context_key]
                    ELSE think_content_probe(g.store, user_id, user_request,
                                             kr, cr, t, get_fault, set_fault,
                                             [base EXCEPT !.gets = kr.context_key]) :
                    g \in {cache_get(st, kr.context_key[1], t, get_fault)} })
        ELSE think_content_probe(st, user_id, user_request, kr, cr, t,
                                 get_fault, set_fault, base)

\* One run of CachingBrain.think.  get_fault and set_fault are what the
\* storage layer does to this call's get and set; o is what the wrapped
\* brain does if it is called (cr is then what _call_and_record does).
\* The result records what the call did:
\*   store, history  the table and conversation_history it leaves
\*   raised    "no", "storage" (a store call raised), "producer"
\*   returned  the ThinkResult returned (Optional; <<>> when think raised)
\*   outcome   "blacklisted", "hit_context", "hit_content", "miss", "raised"
\*   gets, sets  the keys passed to get, and to a set that wrote
\*   producer_calls  calls of wrapped_brain.think
think_run(st, user_id, conversation_id, history, system_prompt_hash, user_request, o, t, get_fault, set_fault) ==
    Only({ think_steps(st, user_id, history, user_request, kr, cr, t,
                       get_fault, set_fault) :
           kr \in {generate_keys(user_id, conversation_id, user_request,
                                 history, system_prompt_hash)},
           cr \in {call_and_record(history, user_request, o)} })

(***************************************************************************)
(* Inputs of the model                                                     *)
(***************************************************************************)
\* hashlib.md5(prompt.encode()).hexdigest(), cut at character 8, for the
\* prompts of the model: "", "You are a mock brain." (test_caching.py:22),
\* and two prompts whose digests agree on the first 8 characters
Md5Hex(prompt) ==
    IF prompt = ""
    THEN [head8 |-> "d41d8cd9", rest |-> "8f00b204e9800998ecf8427e"]
    ELSE IF prompt = "You are a mock brain."
    THEN [head8 |-> "e13ac8fd", rest |-> "921c678560787b2d96d8ebdc"]
    ELSE IF prompt = "You are a mock brain. v35772"
    THEN [head8 |-> "11509ee2", rest |-> "926b4ab4a70985f34e57c357"]
    ELSE [head8 |-> "11509ee2", rest |-> "932b7252b617acef62e28320"]

\* the CachingBrain instances, each on the one shared CacheManager
Instances == {1, 2}

\* the values str(uuid.uuid4())[:8] takes in the model
ConvIds == {"c0ffee01", "c0ffee02", "c0ffee03"}

(***************************************************************************)
(* Bounds                                                                  *)
(***************************************************************************)
\* calls of wrapped_brain.think, over all instances
MaxCalls == 2

\* advances of the clock
MaxTicks == 1

\* calls of reset and update_system_prompt, over all instances
MaxAdmin == 1

\* calls of wrapped_brain.think in SpecShadow, over all instances
MaxCallsShadow == 5

(***************************************************************************)
(* State                                                                   *)
(***************************************************************************)
VARIABLES
    store,                 \* the table cache_entries: key -> row
    now,                   \* time.time()
    user_id,               \* CachingBrain.user_id, per instance
    conversation_id,       \* CachingBrain.conversation_id
    conversation_history,  \* CachingBrain.conversation_history
    system_prompt_hash,    \* CachingBrain.system_prompt_hash
    call_count,            \* calls of wrapped_brain.think (MockBrain.call_count)
    ticks,                 \* advances of the clock so far
    admin,                 \* calls of reset and update_system_prompt so far
    shared_cached,         \* per instance: what the shared-scope misses cached
                           \* since the last reset or prompt update, as
                           \* records [query, at, value]
    key_results,           \* per instance: the last generate_keys call made
                           \* directly, as <<[args, result]>>, or <<>>
    pending,               \* per client of the store: the locals of its store
                           \* call in flight between two SQL statements
    last                   \* what the last operation did

vars == <<store, now, user_id, conversation_id, conversation_history,
          system_prompt_hash, call_count, ticks, admin, shared_cached,
          key_results, pending, last>>

\* no call in flight.  The locals of a call in flight:
\*   op           "get" (after its SELECT), "prune" (after its COUNT),
\*                "think" (between two of its steps)
\*   key, row     get: its key and the row its SELECT fetched
\*   count, max_entries   prune: the count it read and its limit
\*   began        prune: the table when the pass read its count
\*   open         connections the call opened that are not closed yet: no
\*                code closes one; the interpreter does when it collects it
\*   txn          the call has executed a DELETE not yet committed
\*   pc           think: "probe" (a get to start), "probe_row" (inside a get,
\*                row fetched), "probe_exit" (inside a get, lazy DELETE
\*                executed), "producer" (wrapped brain to call),
\*                "producing" (inside wrapped_brain.think), "write" (a set
\*                to start)
\*   query, kr, o think: user_request, key_result, what the wrapped brain does
\*   probes, writes   think: the keys still to get, still to set
\*   gets, sets   think: the keys got, and set, so far
\*   produced     think: result of _call_and_record (Optional)
\*   order        think: its store calls and producer call in the order made
Idle ==
    [op |-> "idle", key |-> "", row |-> <<>>, count |-> 0, max_entries |-> 0,
     began |-> <<>>, open |-> 0, pc |-> "", query |-> "", kr |-> <<>>,
     o |-> <<>>, probes |-> <<>>, writes |-> <<>>, gets |-> <<>>, sets |-> <<>>,
     produced |-> <<>>, order |-> <<>>, txn |-> FALSE]

\* The record of an operation:
\*   op, inst, query, key   the operation and its arguments
\*   get_fault, set_fault   what the storage layer did to its get and set
\*   row        for get: the row under the key before the call ("absent",
\*              "expired", "corrupt", "live")
\*   produced   what wrapped_brain.think returned (Optional)
\*   tools_run  the wrapped brain executed tools while producing
\*   the other fields are those of think_run
NoOp ==
    [op |-> "init", inst |-> 0, query |-> "", raised |-> "no",
     returned |-> <<>>, outcome |-> "none", scope |-> "none", confidence |-> 0,
     gets |-> <<>>, sets |-> <<>>, producer_calls |-> 0, tools_run |-> FALSE,
     key |-> "", produced |-> <<>>, get_fault |-> "none", set_fault |-> "none",
     row |-> "none", ttl |-> <<>>, max_entries |-> 0, removed |-> {},
     evicted |-> {}, changed |-> FALSE]

\* after CacheManager(db_path) on a new file and CachingBrain(mock_brain,
\* cache_manager, user_id) for each instance (test_caching.py:89-91)
InitWith(users, convs, prompts) ==
    /\ store = <<>>
    /\ now = 0
    /\ user_id = users
    /\ conversation_id = convs
    /\ conversation_history = [i \in Instances |-> <<>>]
    /\ system_prompt_hash = [i \in Instances |-> Md5Hex(prompts[i])]
    /\ call_count = [i \in Instances |-> 0]
    /\ ticks = 0
    /\ admin = 0
    /\ shared_cached = [i \in Instances |-> {}]
    /\ key_results = [i \in Instances |-> <<>>]
    /\ pending = [i \in Instances |-> Idle]
    /\ last = NoOp

TotalCalls == call_count[1] + call_count[2]

\* CachingBrain.think(user_request) on instance i
Think(i, user_request, o, get_fault, set_fault, max_calls) ==
    \E r \in {think_run(store, user_id[i], conversation_id[i],
                          conversation_history[i], system_prompt_hash[i],
                          user_request, o, now, get_fault, set_fault)} :
        /\ r.producer_calls = 0 \/ TotalCalls < max_calls
        /\ store' = r.store
        /\ conversation_history' = [conversation_history EXCEPT ![i] = r.history]
        /\ call_count' = [call_count EXCEPT ![i] = @ + r.producer_calls]
        /\ shared_cached' =
             IF /\ r.outcome = "miss" /\ r.scope = "shared"
                /\ r.returned[1].action = "final_answer"
             THEN [shared_cached EXCEPT ![i] =
                      @ \cup {[query |-> user_request, at |-> now,
                                value |-> r.returned[1]]}]
             ELSE shared_cached
        /\ last' = [NoOp EXCEPT !.op = "think", !.inst = i, !.query = user_request,
                      !.raised = r.raised, !.returned = r.returned,
                      !.outcome = r.outcome, !.scope = r.scope,
                      !.confidence = r.confidence, !.gets = r.gets,
                      !.sets = r.sets, !.producer_calls = r.producer_calls,
                      !.tools_run = (r.producer_calls = 1 /\ o.tools_run),
                      !.produced = IF r.producer_calls = 1 /\ ~o.raised
                                   THEN <<o.result>> ELSE <<>>,
                      !.get_fault = get_fault, !.set_fault = set_fault]
        /\ UNCHANGED <<pending, now, user_id, conversation_id, system_prompt_hash, ticks,
                       admin, key_results>>

\* CachingBrain.reset() on instance i; c is the new uuid prefix
Reset(i, c) ==
    /\ admin < MaxAdmin
    /\ admin' = admin + 1
    /\ conversation_id' = [conversation_id EXCEPT ![i] = c]
    /\ conversation_history' = [conversation_history EXCEPT ![i] = <<>>]
    /\ shared_cached' = [shared_cached EXCEPT ![i] = {}]
    /\ last' = [NoOp EXCEPT !.op = "reset", !.inst = i]
    /\ UNCHANGED <<pending, store, now, user_id, system_prompt_hash, call_count, ticks,
                   key_results>>

\* CachingBrain.update_system_prompt(prompt) on instance i
UpdateSystemPrompt(i, prompt) ==
    /\ admin < MaxAdmin
    /\ admin' = admin + 1
    /\ system_prompt_hash' = [system_prompt_hash EXCEPT ![i] = Md5Hex(prompt)]
    /\ shared_cached' = [shared_cached EXCEPT ![i] = {}]
    /\ last' = [NoOp EXCEPT !.op = "update_system_prompt", !.inst = i,
                  !.changed = (Md5Hex(prompt) # system_prompt_hash[i])]
    /\ UNCHANGED <<pending, store, now, user_id, conversation_id, conversation_history,
                   call_count, ticks, key_results>>

\* the clock advances by d seconds
Tick(d) ==
    /\ ticks < MaxTicks
    /\ ticks' = ticks + 1
    /\ now' = now + d
    /\ last' = [NoOp EXCEPT !.op = "tick"]
    /\ UNCHANGED <<pending, store, user_id, conversation_id, conversation_history,
                   system_prompt_hash, call_count, admin, shared_cached,
                   key_results>>

\* CacheManager.generate_key: "{scope}:{static_hash}:{dynamic_hash}"
generate_key(system_prompt, user_request, uid, scope) ==
    LET static_hash == Md5Hex(system_prompt)
        content == IF scope = "personal" THEN uid \o ":" \o user_request
                   ELSE user_request
    IN  scope \o ":" \o static_hash.head8 \o static_hash.rest \o ":md5[" \o content \o "]"

\* CacheManager.set(key, result, ttl) called by another client of the store
StoreSet(key, result, ttl) ==
    LET s == cache_set(store, key, result, ttl, <<>>, now, now, "none")
    IN  /\ store' = s.store
        /\ last' = [NoOp EXCEPT !.op = "set", !.key = key, !.returned = <<result>>,
                      !.ttl = ttl,
                      !.sets = IF s.store # store THEN <<key>> ELSE <<>>]
        /\ UNCHANGED <<pending, now, user_id, conversation_id, conversation_history,
                       system_prompt_hash, call_count, ticks, admin, shared_cached,
                       key_results>>

\* the state of the row under key as get finds it at time t
RowState(st, key, t) ==
    IF key \notin DOMAIN st THEN "absent"
    ELSE IF t > st[key].expires_at THEN "expired"
    ELSE IF ~st[key].value.valid THEN "corrupt"
    ELSE "live"

\* CacheManager.get(key) called directly; fault is what sqlite does
StoreGet(key, fault) ==
    \E g \in {cache_get(store, key, now, fault)} :
        /\ store' = g.store
        /\ last' = [NoOp EXCEPT !.op = "get", !.key = key,
                      !.raised = IF g.raised THEN "storage" ELSE "no",
                      !.returned = g.value, !.gets = <<key>>,
                      !.get_fault = fault, !.row = RowState(store, key, now)]
        /\ UNCHANGED <<pending, now, user_id, conversation_id, conversation_history,
                       system_prompt_hash, call_count, ticks, admin, shared_cached,
                       key_results>>

\* the value text of the row under key stops being JSON that get can load
\* (the case the try of get is there for)
CorruptRow(key) ==
    /\ key \in DOMAIN store
    /\ store[key].value.valid
    /\ store' = [store EXCEPT ![key].value.valid = FALSE]
    /\ last' = [NoOp EXCEPT !.op = "corrupt", !.key = key]
    /\ UNCHANGED <<pending, now, user_id, conversation_id, conversation_history,
                   system_prompt_hash, call_count, ticks, admin, shared_cached,
                   key_results>>

\* generate_keys on a generator that keeps the history of its caller's
\* earlier call and fingerprints that one again
GenerateKeys_remembering_history(i, user_query, history) ==
    /\ key_results' = [key_results EXCEPT ![i] =
          LET used == IF key_results[i] = <<>> THEN history
                      ELSE key_results[i][1].conversation_history
          IN  << [user_id |-> user_id[i], conversation_id |-> conversation_id[i],
                  user_query |-> user_query, conversation_history |-> history,
                  system_prompt_hash |-> system_prompt_hash[i],
                  history_fp |-> normalize_history_hash(used),
                  result |-> generate_keys(user_id[i], conversation_id[i], user_query,
                                           used, system_prompt_hash[i])] >>]
    /\ last' = [NoOp EXCEPT !.op = "generate_keys", !.inst = i,
                  !.query = user_query]
    /\ UNCHANGED <<pending, store, now, user_id, conversation_id, conversation_history,
                   system_prompt_hash, call_count, ticks, admin, shared_cached>>

\* SmartKeyGenerator.generate_keys called directly with instance i's user,
\* conversation id and prompt hash, on query and history; history_fp is what
\* normalize_history_hash returns for that history
GenerateKeys(i, user_query, history) ==
    /\ key_results' = [key_results EXCEPT ![i] =
          << [user_id |-> user_id[i], conversation_id |-> conversation_id[i],
              user_query |-> user_query, conversation_history |-> history,
              system_prompt_hash |-> system_prompt_hash[i],
              history_fp |-> normalize_history_hash(history),
              result |-> generate_keys(user_id[i], conversation_id[i], user_query,
                                       history, system_prompt_hash[i])] >>]
    /\ last' = [NoOp EXCEPT !.op = "generate_keys", !.inst = i,
                  !.query = user_query]
    /\ UNCHANGED <<pending, store, now, user_id, conversation_id, conversation_history,
                   system_prompt_hash, call_count, ticks, admin, shared_cached>>

(***************************************************************************)
(* Spec: two users' conversations on one store, asking a factual, a        *)
(* personal and a time-sensitive question of a wrapped brain that answers, *)
(* returns an error or raises; the clock                                   *)
(***************************************************************************)
Queries == {Q_CSS, Q_TIME, Q_MY}

Outcomes == {O_ANSWER, O_ERROR, O_RAISE}

Users == [i \in Instances |-> IF i = 1 THEN "alice" ELSE "bob"]

Convs == [i \in Instances |-> IF i = 1 THEN "c0ffee01" ELSE "c0ffee02"]

MockPrompt == "You are a mock brain."

\* seconds the clock advances by: to the expiry of what was stored at 0
\* (still served), and past it
TickSteps == {DEFAULT_TTL, DEFAULT_TTL + 1}

LegacyKey == generate_key("", "legacy", "alice", "shared")

Init == InitWith(Users, Convs, [i \in Instances |-> MockPrompt])

Next ==
    \/ \E i \in Instances, q \in Queries, o \in Outcomes :
          Think(i, q, o, "none", "none", MaxCalls)
    \/ \E d \in TickSteps : Tick(d)

Spec == Init /\ [][Next]_vars

(***************************************************************************)
(* SpecStore: one conversation on a store that another client writes to    *)
(* with set, handing it results of every action                            *)
(***************************************************************************)
StoreOutcomes == {O_ANSWER, O_ERROR, O_TOOL_CALL}

NextStore ==
    \/ \E o \in StoreOutcomes : Think(1, Q_CSS, o, "none", "none", MaxCalls)
    \/ \E o \in StoreOutcomes : StoreSet(LegacyKey, o.result, <<>>)
    \/ \E d \in TickSteps : Tick(d)

SpecStore == Init /\ [][NextStore]_vars

(***************************************************************************)
(* SpecConv: one conversation of one user, asked the test's question in    *)
(* both spellings and a short question, of a wrapped brain that may run    *)
(* device tools before it answers; reset, a new system prompt and the      *)
(* clock end what the conversation has cached                              *)
(***************************************************************************)
ConvQueries == {Q_CSS, Q_CSS_LOWER, Q_TIPS}

ConvOutcomes == {O_ANSWER, O_ANSWER2, O_TOOLS, O_ERROR}

NextConv ==
    \/ \E q \in ConvQueries, o \in ConvOutcomes :
          Think(1, q, o, "none", "none", MaxCalls)
    \/ \E c \in ConvIds : Reset(1, c)
    \/ \E p \in {MockPrompt, ""} : UpdateSystemPrompt(1, p)
    \/ \E d \in TickSteps : Tick(d)

SpecConv == Init /\ [][NextConv]_vars

(***************************************************************************)
(* SpecKeys: generate_keys applied to the arguments of two callers, whose  *)
(* users, conversation ids and prompts are drawn at construction           *)
(***************************************************************************)
UserIds == {"alice", "bob"}

\* the second caller's prompt: the first caller's, one whose digest has the
\* same first 8 characters, and one whose digest has not
KeyPrompts ==
    {[i \in Instances |-> IF i = 1 THEN "You are a mock brain. v35772" ELSE p] :
        p \in {"You are a mock brain. v35772", "You are a mock brain. v53561",
               MockPrompt}}

KeyQueries == {Q_CSS, Q_CSS_LOWER, Q_TIPS, Q_TIME, Str(Q_ACCT_chars)}

\* conversation_history as generate_keys is given it: before the first
\* producer call, and after one
KeyHistories ==
    {<<>>, call_and_record(<<>>, Q_CSS, O_ANSWER).history}

InitKeys ==
    \E users \in [Instances -> UserIds],
       convs \in {Convs, [i \in Instances |-> "c0ffee01"]},
       prompts \in KeyPrompts :
        InitWith(users, convs, prompts)

NextKeys ==
    \E i \in Instances, q \in KeyQueries, h \in KeyHistories :
        GenerateKeys(i, q, h)

SpecKeys == InitKeys /\ [][NextKeys]_vars

(***************************************************************************)
(* SpecShadow: two users with a wrapped brain each, one answering "ok" and *)
(* one "no", asking one question in a shared and in a personal spelling,   *)
(* long enough for the history window to fill                              *)
(***************************************************************************)
ShadowQueries == {Q_API, Q_API_SP}

BrainOf == [i \in Instances |-> IF i = 1 THEN O_ANSWER ELSE O_ANSWER2]

NextShadow ==
    \/ \E i \in Instances, q \in ShadowQueries :
          Think(i, q, BrainOf[i], "none", "none", MaxCallsShadow)
    \/ \E d \in TickSteps : Tick(d)

SpecShadow == Init /\ [][NextShadow]_vars

(***************************************************************************)
(* SpecFault: the store failing under think and under a direct get: sqlite *)
(* raising on a call, and a row whose value text no longer loads           *)
(***************************************************************************)
\* what the storage layer does to one call: nothing, or sqlite3 raises
Faults == {"none", "db_error"}

FaultQueries == {Q_CSS, Q_TIME}

FaultOutcomes == {O_ANSWER, O_ERROR}

NextFault ==
    \/ \E i \in Instances, q \in FaultQueries, o \in FaultOutcomes,
          get_fault \in Faults, set_fault \in Faults :
          Think(i, q, o, get_fault, set_fault, MaxCalls)
    \/ \E k \in (DOMAIN store) \cup {LegacyKey}, fault \in Faults :
          StoreGet(k, fault)
    \/ \E k \in DOMAIN store : CorruptRow(k)
    \/ \E d \in TickSteps : Tick(d)

SpecFault == Init /\ [][NextFault]_vars

(***************************************************************************)
(* Properties                                                              *)
(***************************************************************************)
\* the prompts of the model
AllPrompts == {"", MockPrompt, "You are a mock brain. v35772",
               "You are a mock brain. v53561"}

\* "content:" + sha256(f"{system_prompt_hash[:8]}|{normalized}")[:16]
ContentKeyOf(prompt_hash, query) ==
    "content:" \o Sha256Hex16(prompt_hash.head8 \o "|" \o NormalizeTable[query])

\* every content key there is for the prompts and queries of the model
AllContentKeys ==
    {ContentKeyOf(Md5Hex(p), q) : p \in AllPrompts, q \in AllQueries}

\* what get returns for a row that set wrote from result
Stored(result) == JsonLoads(JsonDumps(result))

\* the records of shared_cached[i] of a query that normalizes as query does,
\* cached no longer ago than the time to live
LiveSharedRecords(i, query) ==
    {rec \in shared_cached[i] :
        /\ NormalizeTable[rec.query] = NormalizeTable[query]
        /\ now <= rec.at + DEFAULT_TTL}

\* C1: within one conversation (no reset, no change of system prompt, entry
\* not expired), after a think(q) that missed with q classified shared and
\* the producer returning a final_answer, every later think(q') with
\* normalize(q') = normalize(q) returns the cached value and does not invoke
\* the producer, short queries with fewer than two factual keywords included.
C1_RepeatedQueryServedFromCache ==
    [][ (last'.op = "think" /\ LiveSharedRecords(last'.inst, last'.query) # {})
          => /\ last'.producer_calls = 0
             /\ \E rec \in LiveSharedRecords(last'.inst, last'.query) :
                   last'.returned = <<Stored(rec.value)>>
      ]_vars

InSeq(x, seq) == \E n \in 1..Len(seq) : seq[n] = x

\* the step changed no row and added none (it may have deleted rows)
NothingWritten == \A k \in DOMAIN store' : k \in DOMAIN store /\ store'[k] = store[k]

\* the rows the step deleted were expired and under keys the call probed
OnlyExpiredProbedDeleted ==
    \A k \in (DOMAIN store) \ (DOMAIN store') :
        InSeq(k, last'.gets) /\ now > store[k].expires_at

\* the two turns _call_and_record appends for the call recorded in last'
TurnsOfCall ==
    << [role |-> UserRole, content |-> last'.query],
       [role |-> AssistantRole,
        content |-> Truncate(last'.returned[1].content, 200)] >>

BlacklistedThink == last'.op = "think" /\ last'.scope = "blacklisted"

BlacklistedBypass ==
    /\ last'.producer_calls = 1
    /\ call_count' = [call_count EXCEPT ![last'.inst] = @ + 1]
    /\ last'.gets = <<>>
    /\ last'.sets = <<>>
    /\ store' = store

\* C2 as stated: a think call whose query is classified blacklisted invokes
\* the producer exactly once, calls neither get nor set, leaves the store
\* unchanged, and the conversation window gains the user and the assistant
\* turn.
C2_BlacklistedAlwaysRecorded ==
    [][ BlacklistedThink =>
          /\ BlacklistedBypass
          /\ last'.returned # <<>>
          /\ conversation_history' =
                [conversation_history EXCEPT ![last'.inst] = @ \o TurnsOfCall]
      ]_vars

\* C2, amended: a think call whose query is classified blacklisted invokes
\* the producer exactly once (N such calls, N invocations), calls neither get
\* nor set and leaves the store unchanged; when the producer returns a result
\* the window gains the user and the assistant turn, and when the producer
\* raises the window is left as it was.
C2_BlacklistedBypassesCache ==
    [][ BlacklistedThink =>
          /\ BlacklistedBypass
          /\ IF last'.raised = "no"
             THEN conversation_history' =
                    [conversation_history EXCEPT ![last'.inst] = @ \o TurnsOfCall]
             ELSE conversation_history' = conversation_history
      ]_vars

\* the same blacklisted query asked twice of one instance: two producer
\* calls, four turns in the window
C2_Witness ==
    /\ last.op = "think" /\ last.scope = "blacklisted" /\ last.raised = "no"
    /\ call_count[last.inst] = 2
    /\ Len(conversation_history[last.inst]) = 4
    /\ conversation_history[last.inst][1].content = last.query
    /\ conversation_history[last.inst][3].content = last.query
    /\ store = <<>>

\* C3: every persisted entry holds a result whose action is final_answer; a
\* set with any other action (tool_call, error) leaves the store unchanged,
\* the entry already under that key included; and think persists nothing
\* when the producer's result is not a final_answer.
C3_OnlyFinalAnswersStored ==
    /\ [](\A k \in DOMAIN store : store[k].value.obj.action = "final_answer")
    /\ [][ (last'.op = "set" /\ last'.returned[1].action # "final_answer")
             => store' = store ]_vars
    /\ [][ (/\ last'.op = "think" /\ last'.produced # <<>>
            /\ last'.produced[1].action # "final_answer")
             => (last'.sets = <<>> /\ NothingWritten) ]_vars

\* a set with an error result was refused while an entry stood under its key
C3_Witness ==
    /\ last.op = "set"
    /\ last.returned[1].action = "error"
    /\ last.sets = <<>>
    /\ last.key \in DOMAIN store

\* C4: no response whose production executed a side-effecting tool is
\* persisted (so none is replayed in place of executing the tool).
C4_NoToolRunPersisted ==
    (last.op = "think" /\ last.tools_run) => last.sets = <<>>

\* C5: a think call whose scope is contextual writes under no content key,
\* and every entry under a content key was written by a think call whose
\* scope was shared.
C5_ContentKeysOnlyFromShared ==
    /\ (last.op = "think" /\ last.scope = "contextual")
          => \A n \in 1..Len(last.sets) : last.sets[n] \notin AllContentKeys
    /\ \A k \in (DOMAIN store) \cap AllContentKeys :
          /\ store[k].metadata # <<>>
          /\ store[k].metadata[1].scope = "shared"

\* a contextual think stored its answer while the store held a content-key
\* entry of a shared think
C5_Witness ==
    /\ last.op = "think" /\ last.scope = "contextual" /\ last.sets # <<>>
    /\ (DOMAIN store) \cap AllContentKeys # {}

ErrorThink ==
    /\ last'.op = "think" /\ last'.produced # <<>>
    /\ last'.produced[1].action = "error"

\* the step is a think on the instance and query of the think before it,
\* whose producer returned an error result
ThinkAfterErrorThink ==
    /\ last.op = "think" /\ last.produced # <<>>
    /\ last.produced[1].action = "error"
    /\ last'.op = "think" /\ last'.inst = last.inst /\ last'.query = last.query

\* both callers have called generate_keys, on queries not blacklisted
BothKeyed ==
    /\ key_results[1] # <<>> /\ key_results[2] # <<>>
    /\ key_results[1][1].result.scope # "blacklisted"
    /\ key_results[2][1].result.scope # "blacklisted"

\* the two calls differ in the user and in nothing else
DifferInUserOnly ==
    /\ key_results[1][1].user_id # key_results[2][1].user_id
    /\ key_results[1][1].conversation_id = key_results[2][1].conversation_id
    /\ key_results[1][1].user_query = key_results[2][1].user_query
    /\ key_results[1][1].conversation_history = key_results[2][1].conversation_history
    /\ key_results[1][1].system_prompt_hash = key_results[2][1].system_prompt_hash

\* C6: two generate_keys calls with distinct users and the same conversation
\* id, query (not blacklisted), history and prompt fingerprint give different
\* context keys and the same content key; and the content key depends on the
\* first 8 characters of the prompt fingerprint and on normalize(query) only:
\* calls that agree on these agree on the content key, whatever the user,
\* conversation id and history.
C6_KeysSeparateUsersShareContent ==
    BothKeyed =>
      /\ DifferInUserOnly =>
            /\ key_results[1][1].result.context_key # key_results[2][1].result.context_key
            /\ key_results[1][1].result.content_key = key_results[2][1].result.content_key
      /\ (/\ key_results[1][1].system_prompt_hash.head8
               = key_results[2][1].system_prompt_hash.head8
          /\ NormalizeTable[key_results[1][1].user_query]
               = NormalizeTable[key_results[2][1].user_query])
            => key_results[1][1].result.content_key
                 = key_results[2][1].result.content_key

\* two users asked the same question in the same setting and hold both keys
C6_Witness ==
    /\ BothKeyed /\ DifferInUserOnly
    /\ key_results[1][1].result.context_key # <<>>
    /\ key_results[1][1].result.content_key # <<>>
    /\ key_results[1][1].conversation_history # <<>>

\* what another instance, of another user and conversation and the same
\* prompt fingerprint, cached for this query on a shared-scope miss and has
\* not expired
CachedByAnother(b, query) ==
    {rec \in UNION {shared_cached[a] :
                       a \in {x \in Instances \ {b} :
                                /\ user_id[x] # user_id[b]
                                /\ conversation_id[x] # conversation_id[b]
                                /\ system_prompt_hash[x] = system_prompt_hash[b]}} :
        rec.query = query /\ now <= rec.at + DEFAULT_TTL}

SharedThinkAfterAnother ==
    /\ last'.op = "think" /\ last'.scope = "shared"
    /\ CachedByAnother(last'.inst, last'.query) # {}

\* C7 as stated: after instance A's think(q) missed with scope shared and
\* cached a final_answer, a think(q) on instance B (another user and
\* conversation, same prompt fingerprint) that is itself classified shared
\* returns A's cached value without invoking B's producer, while the entry
\* has not expired.
C7_OtherUsersValueReturned ==
    [][ SharedThinkAfterAnother =>
          /\ last'.producer_calls = 0
          /\ \E rec \in CachedByAnother(last'.inst, last'.query) :
                last'.returned = <<Stored(rec.value)>>
      ]_vars

\* C7, amended: such a think(q) on B is answered from the store without
\* invoking B's producer: with the entry under B's own context key when a
\* live one is there (it is probed first), and otherwise with A's cached
\* value, from the content key.
C7_CrossUserServedFromCache ==
    [][ SharedThinkAfterAnother =>
          /\ last'.producer_calls = 0
          /\ call_count' = call_count
          /\ \/ /\ last'.outcome = "hit_context"
                /\ last'.returned = <<JsonLoads(store[last'.gets[1]].value)>>
             \/ /\ last'.outcome = "hit_content"
                /\ \E rec \in CachedByAnother(last'.inst, last'.query) :
                      last'.returned = <<Stored(rec.value)>>
      ]_vars

\* the second user, whose producer was never called, got the first user's
\* answer from the content key
C7_Witness ==
    /\ last.op = "think" /\ last.inst = 2 /\ last.scope = "shared"
    /\ last.outcome = "hit_content"
    /\ call_count[2] = 0
    /\ \E rec \in shared_cached[1] :
          rec.query = last.query /\ last.returned = <<Stored(rec.value)>>

\* C8 as stated: when the producer returns an error result on a think that
\* is not a hit, think returns exactly that result, the store is unchanged by
\* the call, and the next think with the same query invokes the producer
\* again; when the producer raises, nothing is written.
C8_ErrorLeavesStoreUnchanged ==
    /\ [][ ErrorThink => (last'.returned = last'.produced /\ store' = store) ]_vars
    /\ [][ ThinkAfterErrorThink => last'.producer_calls = 1 ]_vars
    /\ [][ (last'.op = "think" /\ last'.raised = "producer")
             => (last'.sets = <<>> /\ NothingWritten) ]_vars

\* C8, amended: when the producer returns an error result on a think that is
\* not a hit, think returns exactly that result and stores nothing: no row is
\* written, and the only rows that go are expired rows under the keys the
\* call probed, which get deletes; no hit ever returns an error result; when
\* the producer raises, nothing is written either.
C8_ErrorResultNotCached ==
    /\ [][ ErrorThink =>
             /\ last'.returned = last'.produced
             /\ last'.sets = <<>>
             /\ NothingWritten
             /\ OnlyExpiredProbedDeleted ]_vars
    /\ [][ (last'.op = "think" /\ last'.raised = "producer")
             => (last'.sets = <<>> /\ NothingWritten /\ OnlyExpiredProbedDeleted) ]_vars
    /\ []((last.op = "think" /\ last.outcome \in {"hit_context", "hit_content"})
             => last.returned[1].action = "final_answer")

\* an error result came back from a think that probed a store holding entries
C8_Witness ==
    /\ last.op = "think" /\ last.outcome = "miss"
    /\ last.returned = last.produced
    /\ last.returned[1].action = "error"
    /\ last.gets # <<>>
    /\ store # <<>>

\* C9: get is fail-open: whatever fails in the storage layer during get (a
\* database error while reading or deleting, a corrupted row, a value that
\* does not deserialize), get raises nothing and returns None.
C9_GetFailsOpen ==
    last.op = "get" =>
      /\ last.raised = "no"
      /\ (last.get_fault # "none" \/ last.row = "corrupt") => last.returned = <<>>

\* C10: when every store operation fails, each think still invokes the
\* producer exactly once and returns the producer's result; think surfaces no
\* storage error, from the read probes or from the write-back.
C10_OutageFallsBackToProducer ==
    (last.op = "think" /\ last.get_fault = "db_error" /\ last.set_fault = "db_error")
      => /\ last.producer_calls = 1
         /\ last.raised = "no"
         /\ last.returned = last.produced

(***************************************************************************)
(* CacheManager.cleanup and CacheManager.prune_to_limit called directly    *)
(***************************************************************************)
\* CacheManager.cleanup()
Cleanup ==
    /\ store' = cleanup(store, now)
    /\ last' = [NoOp EXCEPT !.op = "cleanup",
                  !.removed = (DOMAIN store) \ (DOMAIN store')]
    /\ UNCHANGED <<pending, now, user_id, conversation_id, conversation_history,
                   system_prompt_hash, call_count, ticks, admin, shared_cached,
                   key_results>>

\* CacheManager.prune_to_limit(max_entries); rows of equal created_at are
\* ordered as sqlite happens to order them
PruneToLimit(max_entries) ==
    /\ store' \in prune_to_limit(store, max_entries)
    /\ last' = [NoOp EXCEPT !.op = "prune_to_limit", !.max_entries = max_entries,
                  !.removed = (DOMAIN store) \ (DOMAIN store')]
    /\ UNCHANGED <<pending, now, user_id, conversation_id, conversation_history,
                   system_prompt_hash, call_count, ticks, admin, shared_cached,
                   key_results>>

(***************************************************************************)
(* SpecTable: clients of one store setting and getting two keys, with the  *)
(* default and a one-second time-to-live, while the clock advances         *)
(***************************************************************************)
OtherKey == generate_key(MockPrompt, "other", "alice", "personal")

TableKeys == {LegacyKey, OtherKey}

\* what set is handed: answers as CLIProxyBrain.think builds them (with and
\* without the last tool's name and arguments) and an error result
TablePayloads == {O_ANSWER.result, O_TOOLS.result, O_ERROR.result}

\* ttl: None (the default applies) or one second
TableTtls == {<<>>, <<1>>}

NextTable ==
    \/ \E k \in TableKeys, v \in TablePayloads, ttl \in TableTtls : StoreSet(k, v, ttl)
    \/ \E k \in TableKeys : StoreGet(k, "none")
    \/ \E d \in TickSteps : Tick(d)

SpecTable == Init /\ [][NextTable]_vars

\* the time-to-live set applies: ttl or default_ttl
TtlUsed(ttl) == IF ttl = <<>> \/ ttl[1] = 0 THEN DEFAULT_TTL ELSE ttl[1]

C12_GetExpiresLazily ==
    [][ (last'.op = "get" /\ last'.key \in DOMAIN store)
        => LET row == store[last'.key]
           IN  /\ row.expires_at < now
                    => /\ last'.returned = <<>>
                       /\ store' = DeleteRow(store, last'.key)
                       /\ last'.key \notin DOMAIN store'
               /\ now <= row.expires_at
                    => /\ last'.returned = <<JsonLoads(row.value)>>
                       /\ store' = store ]_vars

\* a get has just found its key's row expired and deleted it, the other
\* key's row, still live, staying in the table
C12_Witness ==
    /\ last.op = "get"
    /\ last.row = "expired"
    /\ last.returned = <<>>
    /\ last.key \notin DOMAIN store
    /\ \E k \in DOMAIN store : now <= store[k].expires_at

(***************************************************************************)
(* SpecPrune: a store of three keys written by set with the default and a  *)
(* one-second time-to-live, on which cleanup and prune_to_limit run while  *)
(* the clock advances                                                      *)
(***************************************************************************)
ThirdKey == generate_key(MockPrompt, "third", "bob", "personal")

PruneKeys == {LegacyKey, OtherKey, ThirdKey}

\* max_entries: from none kept to more than the table can hold
PruneLimits == 0 .. (Cardinality(PruneKeys) + 1)

NextPrune ==
    \/ \E k \in PruneKeys, ttl \in TableTtls : StoreSet(k, O_ANSWER.result, ttl)
    \/ Cleanup
    \/ \E n \in PruneLimits : PruneToLimit(n)
    \/ \E d \in TickSteps : Tick(d)

SpecPrune == Init /\ [][NextPrune]_vars

\* C13: prune_to_limit(N) leaves exactly min(N, prior count) rows, each as
\* it was; every removed row was created no later than every kept row; a
\* table of at most N rows is left unchanged
C13_PruneKeepsNewest ==
    [][ last'.op = "prune_to_limit"
        => LET N == last'.max_entries
               prior == Cardinality(DOMAIN store)
               kept == DOMAIN store'
               removed == (DOMAIN store) \ kept
           IN  /\ kept \subseteq DOMAIN store
               /\ Cardinality(kept) = Min(N, prior)
               /\ \A k \in kept : store'[k] = store[k]
               /\ \A d \in removed : \A k \in kept :
                     store[d].created_at <= store[k].created_at
               /\ prior <= N => store' = store ]_vars

\* prune_to_limit(1) has just removed two rows of a table of three and
\* kept the one created after the clock advanced
C13_Witness ==
    /\ last.op = "prune_to_limit"
    /\ last.max_entries = 1
    /\ Cardinality(last.removed) = 2
    /\ Cardinality(DOMAIN store) = 1
    /\ \A k \in DOMAIN store : store[k].created_at > 0

\* the keys whose rows a get at time t would find expired (and delete)
ExpiredForGet(st, t) == {k \in DOMAIN st : RowState(st, k, t) = "expired"}

\* C14: cleanup removes exactly the rows with expires_at < now, which are
\* exactly the rows a get would treat as expired at that time, and leaves
\* every other row as it was; run again at once it changes nothing
C14_CleanupRemovesExpired ==
    [][ last'.op = "cleanup"
        => /\ (DOMAIN store) \ (DOMAIN store') = {k \in DOMAIN store : store[k].expires_at < now}
           /\ (DOMAIN store) \ (DOMAIN store') = ExpiredForGet(store, now)
           /\ DOMAIN store' \subseteq DOMAIN store
           /\ \A k \in DOMAIN store' : store'[k] = store[k]
           /\ cleanup(store', now) = store'
           /\ last.op = "cleanup" => store' = store ]_vars

\* cleanup has just run at the very second a row expires: it removed
\* another row, expired before, and kept that one
C14_Witness ==
    /\ last.op = "cleanup"
    /\ last.removed # {}
    /\ \E k \in DOMAIN store : store[k].expires_at = now

\* C15: reset empties the conversation window, replaces the conversation
\* id with one different from the previous and leaves the table as it was;
\* a think that follows, on a query classified shared whose content-key row
\* is live, is served from the content key
C15_ResetMintsNewConversation ==
    [][ /\ last'.op = "reset"
           => /\ conversation_history'[last'.inst] = <<>>
              /\ conversation_id'[last'.inst] # conversation_id[last'.inst]
              /\ store' = store
        /\ (/\ last.op = "reset" /\ last'.op = "think" /\ last'.inst = last.inst
            /\ last'.scope = "shared"
            /\ RowState(store, ContentKeyOf(system_prompt_hash[last.inst], last'.query), now) = "live")
           => /\ last'.outcome = "hit_content"
              /\ last'.producer_calls = 0 ]_vars

(***************************************************************************)
(* SpecPrompt: one conversation whose system prompt is replaced, by one    *)
(* whose digest begins with the same 8 characters and by one whose digest  *)
(* does not, between questions                                             *)
(***************************************************************************)
FirstPrompt == "You are a mock brain. v35772"

NewPrompts == {"You are a mock brain. v53561", MockPrompt}

PromptQueries == {Q_CSS, Q_TIPS}

PromptOutcomes == {O_ANSWER, O_ANSWER2}

InitPrompt == InitWith(Users, Convs, [i \in Instances |-> FirstPrompt])

NextPrompt ==
    \/ \E q \in PromptQueries, o \in PromptOutcomes :
          Think(1, q, o, "none", "none", MaxCalls)
    \/ \E p \in NewPrompts : UpdateSystemPrompt(1, p)
    \/ \E d \in TickSteps : Tick(d)

SpecPrompt == InitPrompt /\ [][NextPrompt]_vars

\* the content keys derived from a prompt hash whose first 8 characters
\* are not those of prompt_hash
OtherPromptContentKeys(prompt_hash) ==
    {ContentKeyOf(Md5Hex(p), q) :
        p \in {x \in AllPrompts : Md5Hex(x).head8 # prompt_hash.head8},
        q \in AllQueries}

\* C16: update_system_prompt leaves every row of the table in place, and
\* the row a think returns from a content key lies under the content key
\* derived from the current prompt hash, never under one derived from a
\* prompt hash with other first 8 characters
C16_OldPromptEntriesUnreachable ==
    [][ /\ last'.op = "update_system_prompt" => store' = store
        /\ (last'.op = "think" /\ last'.outcome \in {"hit_content", "hit_context"})
           => LET key == last'.gets[Len(last'.gets)]
              IN  /\ key \notin OtherPromptContentKeys(system_prompt_hash[last'.inst])
                  /\ last'.outcome = "hit_content"
                        => key = ContentKeyOf(system_prompt_hash[last'.inst], last'.query)
        /\ (/\ last'.op = "think" /\ last'.scope = "shared"
            /\ last'.outcome # "hit_context"
            /\ RowState(store, ContentKeyOf(system_prompt_hash[last'.inst], last'.query), now) # "live")
           => last'.outcome = "miss" ]_vars

\* after the prompt was replaced by one with another digest prefix, a think
\* on the question answered before has just called the producer and stored
\* its answer, the row under the old prompt's content key still in place
C16_Witness ==
    /\ last.op = "think"
    /\ last.outcome = "miss"
    /\ last.scope = "shared"
    /\ system_prompt_hash[1] = Md5Hex(MockPrompt)
    /\ ContentKeyOf(Md5Hex(FirstPrompt), last.query) \in DOMAIN store
    /\ ContentKeyOf(Md5Hex(MockPrompt), last.query) \in DOMAIN store
    /\ store[ContentKeyOf(Md5Hex(FirstPrompt), last.query)].value
         # store[ContentKeyOf(Md5Hex(MockPrompt), last.query)].value

(***************************************************************************)
(* SpecText: two callers applying normalize_query and detect_scope to the  *)
(* texts of the model, with and without a history; key_results holds what  *)
(* each caller got last                                                    *)
(***************************************************************************)
\* SmartKeyGenerator.normalize_query(query) called by caller i
NormalizeQuery(i, query) ==
    /\ key_results' = [key_results EXCEPT ![i] =
          << [op |-> "normalize_query", query |-> query, history |-> <<>>,
              result |-> NormalizeTable[query]] >>]
    /\ last' = [NoOp EXCEPT !.op = "normalize_query", !.inst = i, !.query = query]
    /\ UNCHANGED <<pending, store, now, user_id, conversation_id, conversation_history,
                   system_prompt_hash, call_count, ticks, admin, shared_cached>>

\* SmartKeyGenerator.detect_scope(query, history) called by caller i
DetectScope(i, query, history) ==
    /\ key_results' = [key_results EXCEPT ![i] =
          << [op |-> "detect_scope", query |-> query, history |-> history,
              result |-> ScopeTable[query][Len(history) > 0]] >>]
    /\ last' = [NoOp EXCEPT !.op = "detect_scope", !.inst = i, !.query = query]
    /\ UNCHANGED <<pending, store, now, user_id, conversation_id, conversation_history,
                   system_prompt_hash, call_count, ticks, admin, shared_cached>>

NextText ==
    \/ \E i \in Instances, q \in AllQueries : NormalizeQuery(i, q)
    \/ \E i \in Instances, q \in AllQueries, h \in KeyHistories : DetectScope(i, q, h)

SpecText == Init /\ [][NextText]_vars

\* what the callers got last from the operation op
ResultsOf(op) ==
    {key_results[i][1] : i \in {j \in Instances : key_results[j] # <<>> /\ key_results[j][1].op = op}}

\* normalize_query applied to its own result, for every text of the model
NormalizedTwice ==
    [t \in AllQueries |-> Str(normalize_query(normalize_query(Chars(t))))]

\* C17: normalize_query is idempotent: applied to its own result it returns
\* that result, for every query, "css tips ?" included
C17_NormalizeIdempotent ==
    \A r \in ResultsOf("normalize_query") : NormalizedTwice[r.query] = r.result

\* the normalized form of the text contains a blacklist keyword
NormalizedHasBlacklistKeyword ==
    [t \in AllQueries |->
        \E k \in 1..Len(BLACKLIST_KEYWORDS) :
            Contains(normalize_query(Chars(t)), BLACKLIST_KEYWORDS[k])]

\* C18: detect_scope returns (blacklisted, 1.0) for every query whose
\* normalized form contains a blacklist keyword, with and without history,
\* whatever personal and factual indicators the query also matches
C18_BlacklistOnNormalizedQuery ==
    \A r \in ResultsOf("detect_scope") :
        NormalizedHasBlacklistKeyword[r.query]
            => r.result = [scope |-> "blacklisted", confidence |-> 100]

\* the counts the decision list is stated over
PersonalMatches == [t \in AllQueries |-> CountMatches(Lower(Chars(t)), PERSONAL_INDICATORS)]

FactualMatches == [t \in AllQueries |-> CountMatches(Lower(Chars(t)), FACTUAL_INDICATORS)]

Tokens == [t \in AllQueries |-> TokenCount(Chars(t))]

\* C19: for a query detect_scope does not blacklist, the result is that of
\* the first rule that applies: a personal match gives contextual with
\* min(0.9 + 0.05p, 1.0); else two factual matches give shared with
\* min(0.7 + 0.1f, 1.0); else at most 5 tokens and a history give
\* contextual 0.8; else one factual match gives shared 0.6; else shared 0.5
C19_ScopeDecisionList ==
    \A r \in ResultsOf("detect_scope") :
        LET p == PersonalMatches[r.query]
            f == FactualMatches[r.query]
            t == Tokens[r.query]
            h == r.history # <<>>
        IN  r.result.scope # "blacklisted"
            => /\ p >= 1 => r.result = [scope |-> "contextual", confidence |-> Min(90 + 5 * p, 100)]
               /\ (p = 0 /\ f >= 2)
                    => r.result = [scope |-> "shared", confidence |-> Min(70 + 10 * f, 100)]
               /\ (p = 0 /\ f < 2 /\ t <= 5 /\ h)
                    => r.result = [scope |-> "contextual", confidence |-> 80]
               /\ (p = 0 /\ f = 1 /\ ~(t <= 5 /\ h))
                    => r.result = [scope |-> "shared", confidence |-> 60]
               /\ (p = 0 /\ f = 0 /\ ~(t <= 5 /\ h))
                    => r.result = [scope |-> "shared", confidence |-> 50]

\* one caller has just got shared 1.0 for "explain css api" (3 tokens, 3
\* factual matches) asked with a history, the other contextual 0.95 for
\* "explain css api " (the same with a personal match)
C19_Witness ==
    /\ last.op = "detect_scope"
    /\ \E r \in ResultsOf("detect_scope") :
          /\ r.query = Q_API /\ r.history # <<>>
          /\ r.result = [scope |-> "shared", confidence |-> 100]
    /\ \E r \in ResultsOf("detect_scope") :
          /\ r.query = Q_API_SP
          /\ r.result = [scope |-> "contextual", confidence |-> 95]

\* the inputs of a recorded generate_keys call
InputsOf(r) ==
    <<r.user_id, r.conversation_id, r.user_query, r.conversation_history,
      r.system_prompt_hash>>

C21_KeyResultWellFormed ==
    \A i \in Instances : key_results[i] # <<>> =>
        LET kr == key_results[i][1].result
        IN  /\ kr.scope \in {"blacklisted", "shared", "contextual"}
            /\ kr.scope = "blacklisted"
                  => kr.content_key = <<>> /\ kr.context_key = <<>>
            /\ kr.scope \in {"shared", "contextual"}
                  => kr.content_key # <<>> /\ kr.context_key # <<>>
            /\ 0 <= kr.confidence /\ kr.confidence <= 100

\* one caller holds the KeyResult of a blacklisted query, the other that of
\* "my account history", whose three personal matches reach the cap of 1.0
C21_Witness ==
    /\ key_results[1] # <<>> /\ key_results[2] # <<>>
    /\ key_results[1][1].result.scope = "blacklisted"
    /\ key_results[2][1].user_query = Str(Q_ACCT_chars)
    /\ key_results[2][1].result.confidence = 100
    /\ key_results[2][1].result.context_key # <<>>

(***************************************************************************)
(* SpecClock: sets during which the clock advances between the two         *)
(* time.time() reads of CacheManager.set (expires_at is computed from the  *)
(* first, created_at is the second), gets, and the clock                   *)
(***************************************************************************)
\* seconds that pass between the two reads
SetDelays == {0, 1, 2}

\* CacheManager.set(key, result, ttl) during which the clock advances by d
\* between the read for expires_at and the read for created_at
StoreSetAcross(key, result, ttl, d) ==
    LET s == cache_set(store, key, result, ttl, <<>>, now, now + d, "none")
    IN  /\ d = 0 \/ ticks < MaxTicks
        /\ ticks' = IF d = 0 THEN ticks ELSE ticks + 1
        /\ now' = now + d
        /\ store' = s.store
        /\ last' = [NoOp EXCEPT !.op = "set", !.key = key, !.returned = <<result>>,
                      !.ttl = ttl,
                      !.sets = IF s.store # store THEN <<key>> ELSE <<>>]
        /\ UNCHANGED <<pending, user_id, conversation_id, conversation_history,
                       system_prompt_hash, call_count, admin, shared_cached,
                       key_results>>

NextClock ==
    \/ \E k \in TableKeys, ttl \in TableTtls, d \in SetDelays :
          StoreSetAcross(k, O_ANSWER.result, ttl, d)
    \/ \E k \in TableKeys : StoreGet(k, "none")
    \/ \E d \in TickSteps : Tick(d)

SpecClock == Init /\ [][NextClock]_vars

\* C22: every row of the table has expires_at > created_at, whatever ttl
\* set was given and however far the clock advanced between the two clock
\* reads of set
C22_ExpiresAfterCreated ==
    \A k \in DOMAIN store : store[k].expires_at > store[k].created_at

\* the KeyResult think computes in step 1 for instance i and query q
KeysOfThink(i, q) ==
    generate_keys(user_id[i], conversation_id[i], q, conversation_history[i],
                  system_prompt_hash[i])

\* C23: a think calls the producer at most once, and not at all when a
\* probe hits; a blacklisted think probes nothing; any other think probes
\* its context key first and its content key only after the context probe
\* missed and only when the scope is shared, so a contextual think reads
\* its context key alone; a live row under the context key is the one
\* returned, whatever lies under the content key
C23_ReadPathOrder ==
    [][ last'.op = "think"
        => LET kr  == KeysOfThink(last'.inst, last'.query)
               ctx == kr.context_key[1]
           IN  /\ last'.producer_calls <= 1
               /\ last'.outcome \in {"hit_context", "hit_content"}
                     => last'.producer_calls = 0
               /\ kr.scope = "blacklisted" => last'.gets = <<>>
               /\ kr.scope # "blacklisted"
                     => /\ last'.gets \in {kr.context_key, kr.context_key \o kr.content_key}
                        /\ last'.gets # kr.context_key
                              => /\ kr.scope = "shared"
                                 /\ RowState(store, ctx, now) # "live"
                        /\ kr.scope = "contextual" => last'.gets = kr.context_key
                        /\ RowState(store, ctx, now) = "live"
                              => /\ last'.outcome = "hit_context"
                                 /\ last'.gets = kr.context_key
                                 /\ last'.returned = <<JsonLoads(store[ctx].value)>> ]_vars

\* a think has just been served from its context key while a live row with
\* another answer lies under the content key of its query
C23_Witness ==
    /\ last.op = "think"
    /\ last.outcome = "hit_context"
    /\ last.producer_calls = 0
    /\ LET ck == ContentKeyOf(system_prompt_hash[last.inst], last.query)
       IN  /\ RowState(store, ck, now) = "live"
           /\ <<JsonLoads(store[ck].value)>> # last.returned

\* C24: a think that misses on a shared query and gets a final_answer from
\* the producer writes it under the content key, and under the context key
\* too exactly when the confidence is at least 0.7, which is exactly when
\* two or more factual indicators matched; it writes no other key
C24_SharedWritePolicy ==
    [][ (/\ last'.op = "think" /\ last'.outcome = "miss" /\ last'.scope = "shared"
         /\ last'.returned[1].action = "final_answer")
        => LET kr == KeysOfThink(last'.inst, last'.query)
               written == {last'.sets[n] : n \in 1..Len(last'.sets)}
           IN  /\ kr.content_key[1] \in written
               /\ kr.context_key[1] \in written <=> kr.confidence >= 70
               /\ kr.confidence >= 70 <=> FactualMatches[last'.query] >= 2
               /\ written \subseteq {kr.content_key[1], kr.context_key[1]}
               /\ \A k \in written :
                     /\ k \in DOMAIN store'
                     /\ store'[k].value = JsonDumps(last'.returned[1])
               /\ \A k \in (DOMAIN store') \ written :
                     k \in DOMAIN store /\ store'[k] = store[k] ]_vars

\* a think on "css tips" (one factual match, confidence 0.6) has just
\* missed and stored the answer under its content key alone
C24_Witness ==
    /\ last.op = "think" /\ last.outcome = "miss" /\ last.scope = "shared"
    /\ last.confidence = 60
    /\ last.returned[1].action = "final_answer"
    /\ last.sets = <<ContentKeyOf(system_prompt_hash[last.inst], last.query)>>
    /\ Cardinality(DOMAIN store) = 1

\* C25: after a think missed on a shared query with confidence >= 0.7 and
\* stored a final_answer under its context key, the same instance's next
\* think on the same query is served from that very context key
C25_FollowUpHitsContextKey ==
    [][ (/\ last.op = "think" /\ last.outcome = "miss" /\ last.scope = "shared"
         /\ last.confidence >= 70 /\ Len(last.sets) = 2
         /\ last'.op = "think" /\ last'.inst = last.inst /\ last'.query = last.query)
        => /\ last'.gets[1] = last.sets[2]
           /\ last'.outcome = "hit_context"
           /\ last'.returned = last.returned ]_vars

\* C26: the in-memory conversation history of every middleware instance never
\* holds more turns than the configured window size
C26_HistoryBounded ==
    \A i \in Instances : Len(conversation_history[i]) <= HISTORY_WINDOW

(***************************************************************************)
(* SpecRace: clients of one cache file whose get and prune_to_limit calls  *)
(* are taken statement by statement.  sqlite3 opens its implicit           *)
(* transaction before a DELETE or INSERT, not before a SELECT, so the      *)
(* SELECT of get and the COUNT of prune_to_limit are over when fetchone    *)
(* returns, and other clients' statements run before the DELETE.           *)
(***************************************************************************)
RaceLimits == 0 .. 1

\* get(key) by client i up to "row = cursor.fetchone()"; without a row get
\* returns None at once
GetSelect(i, key) ==
    /\ pending[i].op = "idle"
    /\ IF key \in DOMAIN store
       THEN /\ pending' = [pending EXCEPT ![i] =
                             [Idle EXCEPT !.op = "get", !.key = key,
                                          !.row = <<store[key]>>, !.open = 1]]
            /\ last' = [NoOp EXCEPT !.op = "get_select", !.inst = i, !.key = key,
                          !.row = RowState(store, key, now)]
       ELSE /\ pending' = pending
            /\ last' = [NoOp EXCEPT !.op = "get", !.inst = i, !.key = key,
                          !.gets = <<key>>, !.row = "absent"]
    /\ UNCHANGED <<store, now, user_id, conversation_id, conversation_history,
                   system_prompt_hash, call_count, ticks, admin, shared_cached,
                   key_results>>

\* the rest of get by client i: the expiry check on the fetched row at the
\* clock's reading, the lazy DELETE by key, or json.loads of the fetched value
GetFinish(i) ==
    /\ pending[i].op = "get"
    /\ LET key == pending[i].key
           row == pending[i].row[1]
       IN  /\ store' = IF now > row.expires_at THEN DeleteRow(store, key) ELSE store
           /\ last' = [NoOp EXCEPT !.op = "get", !.inst = i, !.key = key,
                         !.gets = <<key>>,
                         !.returned = IF now > row.expires_at \/ ~row.value.valid
                                      THEN <<>> ELSE <<JsonLoads(row.value)>>,
                         !.row = IF now > row.expires_at THEN "expired"
                                 ELSE IF ~row.value.valid THEN "corrupt" ELSE "live",
                         !.removed = IF now > row.expires_at
                                     THEN (DOMAIN store) \cap {key} ELSE {}]
    /\ pending' = [pending EXCEPT ![i] = Idle]
    /\ UNCHANGED <<now, user_id, conversation_id, conversation_history,
                   system_prompt_hash, call_count, ticks, admin, shared_cached,
                   key_results>>

\* DELETE ... WHERE key IN (SELECT key ... ORDER BY created_at ASC LIMIT n):
\* the tables it can leave
DeleteOldest(st, n) ==
    LET m == IF n < Cardinality(DOMAIN st) THEN n ELSE Cardinality(DOMAIN st)
    IN  { [k \in (DOMAIN st) \ D |-> st[k]] :
            D \in { E \in SUBSET (DOMAIN st) :
                      /\ Cardinality(E) = m
                      /\ \A d \in E : \A k \in (DOMAIN st) \ E :
                            st[d].created_at <= st[k].created_at } }

\* prune_to_limit(max_entries) by client i up to "if count > max_entries"
PruneCount(i, max_entries) ==
    /\ pending[i].op = "idle"
    /\ IF Cardinality(DOMAIN store) > max_entries
       THEN /\ pending' = [pending EXCEPT ![i] =
                             [Idle EXCEPT !.op = "prune",
                                          !.count = Cardinality(DOMAIN store),
                                          !.max_entries = max_entries,
                                          !.began = <<store>>, !.open = 1]]
            /\ last' = [NoOp EXCEPT !.op = "prune_count", !.inst = i,
                          !.max_entries = max_entries]
       ELSE /\ pending' = pending
            /\ last' = [NoOp EXCEPT !.op = "prune_to_limit", !.inst = i,
                          !.max_entries = max_entries]
    /\ UNCHANGED <<store, now, user_id, conversation_id, conversation_history,
                   system_prompt_hash, call_count, ticks, admin, shared_cached,
                   key_results>>

\* the DELETE of prune_to_limit by client i, with the delete_count computed
\* from the count read before
PruneDelete(i) ==
    /\ pending[i].op = "prune"
    /\ store' \in DeleteOldest(store, pending[i].count - pending[i].max_entries)
    /\ last' = [NoOp EXCEPT !.op = "prune_to_limit", !.inst = i,
                  !.max_entries = pending[i].max_entries,
                  !.removed = (DOMAIN store) \ (DOMAIN store')]
    /\ pending' = [pending EXCEPT ![i] = Idle]
    /\ UNCHANGED <<now, user_id, conversation_id, conversation_history,
                   system_prompt_hash, call_count, ticks, admin, shared_cached,
                   key_results>>

NextRace ==
    \/ \E i \in Instances, k \in TableKeys : GetSelect(i, k)
    \/ \E i \in Instances : GetFinish(i)
    \/ \E i \in Instances, n \in RaceLimits : PruneCount(i, n)
    \/ \E i \in Instances : PruneDelete(i)
    \/ \E k \in TableKeys, ttl \in TableTtls : StoreSet(k, O_ANSWER.result, ttl)
    \/ Cleanup
    \/ \E d \in TickSteps : Tick(d)

SpecRace == Init /\ [][NextRace]_vars

\* C27: the lazy delete of a get removes only a row that is expired when it
\* is removed: an entry written by a set that completed while the get was
\* in flight stays readable until its expiry
C27_LazyDeleteSparesFreshRow ==
    [][ last'.op = "get"
        => \A k \in (DOMAIN store) \ (DOMAIN store') : now > store[k].expires_at ]_vars

\* C28: a prune_to_limit(N) pass deletes rows only from a table holding more
\* than N rows and never leaves fewer than N rows, whatever cleanup and
\* lazily expiring gets delete while it runs
C28_PruneNeverBelowLimit ==
    [][ (last'.op = "prune_to_limit" /\ last'.removed # {})
        => /\ Cardinality(DOMAIN store) > last'.max_entries
           /\ Cardinality(DOMAIN store') >= last'.max_entries ]_vars

\* C29: every row a prune pass removes is strictly older than every row the
\* pass retains, and was in the table, as it is removed, when the pass began
C29_PruneRemovesStrictlyOlder ==
    [][ last'.op = "prune_to_limit"
        => \A d \in last'.removed :
              /\ \A k \in DOMAIN store' : store[d].created_at < store'[k].created_at
              /\ d \in DOMAIN pending[last'.inst].began[1]
              /\ pending[last'.inst].began[1][d] = store[d] ]_vars

(***************************************************************************)
(* SpecPhase: the think of one conversation taken step by step (each get   *)
(* statement by statement, the call of the wrapped brain, each set), with  *)
(* the thinks of a second conversation and the sets of another client on   *)
(* the one cache file running between its steps                            *)
(***************************************************************************)
PhaseQueries == {Q_CSS, Q_MY, Q_TIME}
PhaseOutcomes == {O_ANSWER, O_RAISE}

\* think returns or raises: the record of the call
ThinkDone(i, p, raised, returned, outcome) ==
    [NoOp EXCEPT !.op = "think", !.inst = i, !.query = p.query,
                 !.raised = raised, !.returned = returned, !.outcome = outcome,
                 !.scope = p.kr[1].scope, !.confidence = p.kr[1].confidence,
                 !.gets = p.gets, !.sets = p.sets,
                 !.producer_calls = IF \E n \in DOMAIN p.order : p.order[n] = "call"
                                     THEN 1 ELSE 0,
                 !.produced = p.produced]

\* think, steps 1 and 2: the keys, and which store calls are to be made
ThinkBegin(i, user_request, o) ==
    /\ pending[i].op = "idle"
    /\ \E kr \in {KeysOfThink(i, user_request)} :
         pending' = [pending EXCEPT ![i] =
            [Idle EXCEPT !.op = "think", !.query = user_request, !.kr = <<kr>>,
                         !.o = <<o>>,
                         !.pc = IF kr.scope = "blacklisted" THEN "producer"
                                ELSE "probe",
                         !.probes = IF kr.scope = "blacklisted" THEN <<>>
                                    ELSE kr.context_key \o
                                         (IF kr.scope = "shared"
                                          THEN kr.content_key ELSE <<>>)]]
    /\ last' = [NoOp EXCEPT !.op = "think_begin", !.inst = i, !.query = user_request]
    /\ UNCHANGED <<store, now, user_id, conversation_id, conversation_history,
                   system_prompt_hash, call_count, ticks, admin, shared_cached,
                   key_results>>

\* think after a get returned None: the next probe, or the producer
AfterProbe(p, key) ==
    [p EXCEPT !.row = <<>>, !.txn = FALSE, !.gets = @ \o <<key>>,
              !.order = @ \o <<"get">>, !.probes = Tail(@),
              !.pc = IF Tail(p.probes) = <<>> THEN "producer" ELSE "probe"]

\* think, steps 3 and 4: cache_manager.get up to "row = cursor.fetchone()"
ThinkProbeSelect(i) ==
    /\ pending[i].op = "think" /\ pending[i].pc = "probe"
    /\ LET key == Head(pending[i].probes)
           p == [pending[i] EXCEPT !.open = @ + 1]
       IN  pending' = [pending EXCEPT ![i] =
              IF key \in DOMAIN store
              THEN [p EXCEPT !.pc = "probe_row", !.row = <<store[key]>>]
              ELSE AfterProbe(p, key)]
    /\ last' = [NoOp EXCEPT !.op = "think_get_select", !.inst = i,
                  !.key = Head(pending[i].probes)]
    /\ UNCHANGED <<store, now, user_id, conversation_id, conversation_history,
                   system_prompt_hash, call_count, ticks, admin, shared_cached,
                   key_results>>

\* think, steps 3 and 4: cache_manager.get from the expiry check on: the
\* lazy DELETE (which opens the implicit transaction), or json.loads and
\* "if cached: return cached"
ThinkProbeFinish(i) ==
    /\ pending[i].op = "think" /\ pending[i].pc = "probe_row"
    /\ LET p == pending[i]
           key == Head(p.probes)
           row == p.row[1]
       IN  IF now > row.expires_at
           THEN /\ store' = DeleteRow(store, key)
                /\ pending' = [pending EXCEPT ![i] =
                                 [p EXCEPT !.pc = "probe_exit", !.txn = TRUE]]
                /\ last' = [NoOp EXCEPT !.op = "think_get_delete", !.inst = i,
                              !.key = key]
           ELSE IF row.value.valid
           THEN /\ store' = store
                /\ pending' = [pending EXCEPT ![i] = Idle]
                /\ last' = ThinkDone(i, [p EXCEPT !.gets = @ \o <<key>>], "no",
                                     <<JsonLoads(row.value)>>,
                                     IF p.gets = <<>> /\ p.kr[1].context_key # <<>>
                                     THEN "hit_context" ELSE "hit_content")
           ELSE /\ store' = store
                /\ pending' = [pending EXCEPT ![i] = AfterProbe(p, key)]
                /\ last' = [NoOp EXCEPT !.op = "think_get", !.inst = i, !.key = key]
    /\ UNCHANGED <<now, user_id, conversation_id, conversation_history,
                   system_prompt_hash, call_count, ticks, admin, shared_cached,
                   key_results>>

\* get returning after its DELETE with the transaction left open
ThinkProbeExit_without_commit(i) ==
    /\ pending[i].op = "think" /\ pending[i].pc = "probe_exit"
    /\ pending' = [pending EXCEPT ![i] =
                     [AfterProbe(@, Head(@.probes)) EXCEPT !.txn = TRUE]]
    /\ last' = [NoOp EXCEPT !.op = "think_get", !.inst = i,
                  !.key = Head(pending[i].probes)]
    /\ UNCHANGED <<store, now, user_id, conversation_id, conversation_history,
                   system_prompt_hash, call_count, ticks, admin, shared_cached,
                   key_results>>

\* cache_manager.get after its lazy DELETE: "return None" leaves the with
\* block, which commits
ThinkProbeExit(i) ==
    /\ pending[i].op = "think" /\ pending[i].pc = "probe_exit"
    /\ pending' = [pending EXCEPT ![i] = AfterProbe(@, Head(@.probes))]
    /\ last' = [NoOp EXCEPT !.op = "think_get", !.inst = i,
                  !.key = Head(pending[i].probes)]
    /\ UNCHANGED <<store, now, user_id, conversation_id, conversation_history,
                   system_prompt_hash, call_count, ticks, admin, shared_cached,
                   key_results>>

\* the connections of think i that get or set has returned from: "with
\* sqlite3.connect(...) as conn" commits and does not close, so each stays
\* open until the interpreter collects it, at a moment of its choosing
Unreferenced(i) ==
    pending[i].open - (IF pending[i].pc \in {"probe_row", "probe_exit"} THEN 1 ELSE 0)

CollectGarbage(i) ==
    /\ pending[i].op = "think"
    /\ Unreferenced(i) > 0
    /\ pending' = [pending EXCEPT ![i].open = @ - Unreferenced(i)]
    /\ last' = [NoOp EXCEPT !.op = "gc", !.inst = i]
    /\ UNCHANGED <<store, now, user_id, conversation_id, conversation_history,
                   system_prompt_hash, call_count, ticks, admin, shared_cached,
                   key_results>>

\* no client is inside a write transaction: a statement of another client
\* that writes waits for the lock until then
Unlocked == \A i \in Instances : ~pending[i].txn

\* _call_and_record enters wrapped_brain.think
ThinkCallProducer(i, max_calls) ==
    /\ pending[i].op = "think" /\ pending[i].pc = "producer"
    /\ TotalCalls < max_calls
    /\ call_count' = [call_count EXCEPT ![i] = @ + 1]
    /\ pending' = [pending EXCEPT ![i] =
                     [@ EXCEPT !.pc = "producing", !.order = @ \o <<"call">>]]
    /\ last' = [NoOp EXCEPT !.op = "think_call", !.inst = i]
    /\ UNCHANGED <<store, now, user_id, conversation_id, conversation_history,
                   system_prompt_hash, ticks, admin, shared_cached, key_results>>

\* wrapped_brain.think returns or raises; _call_and_record records the two
\* turns; think, steps 2 and 6, returns or goes on to its sets
ThinkProducerReturns(i) ==
    /\ pending[i].op = "think" /\ pending[i].pc = "producing"
    /\ LET p == pending[i]
           cr == call_and_record(conversation_history[i], p.query, p.o[1])
           w == IF cr.raised \/ p.kr[1].scope = "blacklisted" THEN <<>>
                ELSE write_keys(p.kr[1], cr.result[1])
       IN  /\ conversation_history' = [conversation_history EXCEPT ![i] = cr.history]
           /\ IF cr.raised
              THEN /\ pending' = [pending EXCEPT ![i] = Idle]
                   /\ last' = ThinkDone(i, p, "producer", <<>>, "raised")
              ELSE IF w = <<>>
              THEN /\ pending' = [pending EXCEPT ![i] = Idle]
                   /\ last' = ThinkDone(i, [p EXCEPT !.produced = cr.result], "no",
                                        cr.result,
                                        IF p.kr[1].scope = "blacklisted"
                                        THEN "blacklisted" ELSE "miss")
              ELSE /\ pending' = [pending EXCEPT ![i] =
                         [@ EXCEPT !.pc = "write", !.produced = cr.result,
                                   !.writes = w, !.order = @ \o <<"return">>]]
                   /\ last' = [NoOp EXCEPT !.op = "think_return", !.inst = i]
    /\ UNCHANGED <<store, now, user_id, conversation_id, system_prompt_hash,
                   call_count, ticks, admin, shared_cached, key_results>>

\* think, step 6: one cache_manager.set; after the last one think returns
ThinkWrite(i) ==
    /\ pending[i].op = "think" /\ pending[i].pc = "write"
    /\ LET p == pending[i]
           key == Head(p.writes)
           s == cache_set(store, key, p.produced[1], <<>>,
                          think_metadata(user_id[i], p.kr[1].scope, p.query),
                          now, now, "none")
           q == [p EXCEPT !.writes = Tail(@), !.sets = @ \o <<key>>,
                          !.order = @ \o <<"set">>, !.open = @ + 1]
       IN  /\ store' = s.store
           /\ IF q.writes = <<>>
              THEN /\ pending' = [pending EXCEPT ![i] = Idle]
                   /\ last' = ThinkDone(i, q, "no", p.produced, "miss")
                   /\ shared_cached' =
                        IF p.kr[1].scope = "shared"
                        THEN [shared_cached EXCEPT ![i] =
                                @ \cup {[query |-> p.query, at |-> now,
                                         value |-> p.produced[1]]}]
                        ELSE shared_cached
              ELSE /\ pending' = [pending EXCEPT ![i] = q]
                   /\ last' = [NoOp EXCEPT !.op = "think_set", !.inst = i, !.key = key]
                   /\ shared_cached' = shared_cached
    /\ UNCHANGED <<now, user_id, conversation_id, conversation_history,
                   system_prompt_hash, call_count, ticks, admin, key_results>>

NextPhase ==
    \/ \E q \in PhaseQueries, o \in PhaseOutcomes : ThinkBegin(1, q, o)
    \/ ThinkProbeSelect(1)
    \/ ThinkProbeFinish(1)
    \/ ThinkProbeExit(1)
    \/ CollectGarbage(1)
    \/ ThinkCallProducer(1, MaxCalls)
    \/ ThinkProducerReturns(1)
    \/ ThinkWrite(1)
    \/ Unlocked /\ Think(2, Q_CSS, O_ANSWER, "none", "none", MaxCalls)
    \/ Unlocked /\ StoreSet(LegacyKey, O_ANSWER.result, <<>>)
    \/ \E d \in TickSteps : Tick(d)

SpecPhase == Init /\ [][NextPhase]_vars

\* C30 as stated: while a think is at its producer call (about to call the
\* wrapped brain, or inside it) no transaction and no connection opened by
\* that think is open
C30_NoConnectionAtProducer ==
    \A i \in Instances :
        (pending[i].op = "think" /\ pending[i].pc \in {"producer", "producing"})
            => ~pending[i].txn /\ pending[i].open = 0

\* C30, amended: while a think is at its producer call no transaction of that
\* think is open, every probe it makes has returned and no set has started;
\* its sets start only after the producer returned, and no get comes after
\* the producer call or a set
C30_ProducerOutsideTransactions ==
    \A i \in Instances :
        pending[i].op = "think" =>
            LET p == pending[i]
            IN  /\ p.pc \in {"producer", "producing"}
                     => /\ ~p.txn
                        /\ p.probes = <<>>
                        /\ p.sets = <<>>
                        /\ p.kr[1].scope # "blacklisted"
                             => p.gets = p.kr[1].context_key \o
                                         (IF p.kr[1].scope = "shared"
                                          THEN p.kr[1].content_key ELSE <<>>)
                /\ p.pc = "write"
                     => /\ ~p.txn
                        /\ \E n \in DOMAIN p.order : p.order[n] = "return"
                /\ \A a, b \in DOMAIN p.order :
                      a < b => /\ ~(p.order[a] \in {"call", "return"} /\ p.order[b] = "get")
                               /\ ~(p.order[a] = "set" /\ p.order[b] # "set")

\* a think inside its producer call after two probes, a connection of which
\* is still open, while another client has just written to the store
C30_Witness ==
    \E i \in Instances :
        /\ pending[i].op = "think" /\ pending[i].pc = "producing"
        /\ Len(pending[i].gets) = 2
        /\ pending[i].open > 0
        /\ last.op = "set" /\ last.sets = <<LegacyKey>>

(***************************************************************************)
(* SpecStartup: a CachingBrain constructed on a cache file other clients   *)
(* have written to.  MAX_CACHE_ENTRIES is a class attribute; the limits of *)
(* the model are its value and values the three keys of the model exceed.  *)
(***************************************************************************)
StartupLimits == {1, 2, MAX_CACHE_ENTRIES}

\* __init__ calling prune_to_limit before cleanup
Construct_prune_first(i, c, max_entries) ==
    /\ admin < MaxAdmin
    /\ admin' = admin + 1
    /\ conversation_id' = [conversation_id EXCEPT ![i] = c]
    /\ conversation_history' = [conversation_history EXCEPT ![i] = <<>>]
    /\ system_prompt_hash' = [system_prompt_hash EXCEPT ![i] = Md5Hex(MockPrompt)]
    /\ shared_cached' = [shared_cached EXCEPT ![i] = {}]
    /\ \E pruned \in prune_to_limit(store, max_entries) :
          /\ store' = cleanup(pruned, now)
          /\ last' = [NoOp EXCEPT !.op = "construct", !.inst = i,
                        !.max_entries = max_entries,
                        !.removed = (DOMAIN store) \ (DOMAIN store'),
                        !.evicted = (DOMAIN store) \ (DOMAIN pruned)]
    /\ UNCHANGED <<pending, now, user_id, call_count, ticks, key_results>>

\* CachingBrain(wrapped_brain, cache_manager, user_id) for instance i on the
\* store as it is: c is the uuid prefix drawn, max_entries the class's
\* MAX_CACHE_ENTRIES; _prune_cache runs cleanup, then prune_to_limit
Construct(i, c, max_entries) ==
    /\ admin < MaxAdmin
    /\ admin' = admin + 1
    /\ conversation_id' = [conversation_id EXCEPT ![i] = c]
    /\ conversation_history' = [conversation_history EXCEPT ![i] = <<>>]
    /\ system_prompt_hash' = [system_prompt_hash EXCEPT ![i] = Md5Hex(MockPrompt)]
    /\ shared_cached' = [shared_cached EXCEPT ![i] = {}]
    /\ \E cleaned \in {cleanup(store, now)} :
          /\ store' \in prune_to_limit(cleaned, max_entries)
          /\ last' = [NoOp EXCEPT !.op = "construct", !.inst = i,
                        !.max_entries = max_entries,
                        !.removed = (DOMAIN store) \ (DOMAIN store'),
                        !.evicted = (DOMAIN cleaned) \ (DOMAIN store')]
    /\ UNCHANGED <<pending, now, user_id, call_count, ticks, key_results>>

NextStartup ==
    \/ \E k \in PruneKeys, ttl \in TableTtls : StoreSet(k, O_ANSWER.result, ttl)
    \/ \E i \in Instances, c \in ConvIds, n \in StartupLimits : Construct(i, c, n)
    \/ \E d \in TickSteps : Tick(d)

SpecStartup == Init /\ [][NextStartup]_vars

\* C31: a construction leaves no row that expired before it and at most
\* MAX_CACHE_ENTRIES rows, each as it was; expired rows go first: the rows
\* kept are min(MAX_CACHE_ENTRIES, unexpired rows before) many, so an
\* unexpired row is evicted only when the unexpired rows alone exceed the limit
C31_StartupBoundsStore ==
    [][ last'.op = "construct"
        => LET unexpired == {k \in DOMAIN store : ~(store[k].expires_at < now)}
           IN  /\ \A k \in DOMAIN store' :
                     /\ k \in unexpired
                     /\ store'[k] = store[k]
               /\ Cardinality(DOMAIN store') <= last'.max_entries
               /\ Cardinality(DOMAIN store') = Min(last'.max_entries, Cardinality(unexpired)) ]_vars

\* a construction that removed an expired row and evicted an unexpired one
C31_Witness ==
    /\ last.op = "construct"
    /\ last.evicted # {}
    /\ last.removed \ last.evicted # {}
    /\ Cardinality(DOMAIN store) = last.max_entries

(***************************************************************************)
(* SpecFrame: every operation of the CacheManager on one table             *)
(***************************************************************************)
NextFrame ==
    \/ \E k \in TableKeys, v \in TablePayloads, ttl \in TableTtls : StoreSet(k, v, ttl)
    \/ \E k \in TableKeys : StoreGet(k, "none")
    \/ Cleanup
    \/ \E n \in RaceLimits : PruneToLimit(n)
    \/ \E d \in TickSteps : Tick(d)

SpecFrame == Init /\ [][NextFrame]_vars

\* C32: a get of an unexpired key leaves the whole table as it is; get,
\* cleanup and prune_to_limit only remove rows and leave the others as they
\* were; a row that changes is the row of the key of a set, which writes
\* value, created_at, expires_at and metadata together
C32_RowsChangeOnlyBySet ==
    [][ /\ \A k \in (DOMAIN store) \cap (DOMAIN store') :
              store'[k] # store[k] => last'.op = "set" /\ last'.key = k
        /\ (last'.op = "get" /\ last'.row \in {"live", "corrupt", "absent"})
              => store' = store
        /\ last'.op \in {"get", "cleanup", "prune_to_limit"}
              => \A k \in DOMAIN store' : k \in DOMAIN store /\ store'[k] = store[k]
        /\ last'.op = "set"
              => /\ \A k \in (DOMAIN store') \ {last'.key} :
                       k \in DOMAIN store /\ store'[k] = store[k]
                 /\ last'.sets # <<>>
                       => store'[last'.key] =
                            [value      |-> JsonDumps(last'.returned[1]),
                             created_at |-> now,
                             expires_at |-> now + TtlUsed(last'.ttl),
                             metadata   |-> <<>>] ]_vars

\* a get that returned a live row from a table of two rows, later than the
\* rows were written
C32_Witness ==
    /\ last.op = "get" /\ last.row = "live" /\ last.returned # <<>>
    /\ Cardinality(DOMAIN store) = 2
    /\ now > 0

(***************************************************************************)
(* SpecTtl: set called with no ttl, with ttl = 0 and with ttl = 1          *)
(***************************************************************************)
SetTtls == {<<>>, <<0>>, <<1>>}

NextTtl ==
    \/ \E k \in TableKeys, ttl \in SetTtls : StoreSet(k, O_ANSWER.result, ttl)
    \/ \E k \in TableKeys : StoreGet(k, "none")
    \/ \E d \in TickSteps : Tick(d)

SpecTtl == Init /\ [][NextTtl]_vars

\* C33: a set that is passed a ttl, ttl = 0 included, stores the row with
\* expires_at = (time of the set) + ttl
C33_ExpiryIsNowPlusTtl ==
    [][ (last'.op = "set" /\ last'.sets # <<>> /\ last'.ttl # <<>>)
        => store'[last'.key].expires_at = now + last'.ttl[1] ]_vars

(***************************************************************************)
(* SpecInvalidate: two users' conversations and invalidate                 *)
(***************************************************************************)
\* CacheManager.invalidate(user_id[i]): its body is "pass"
Invalidate(i) ==
    /\ last' = [NoOp EXCEPT !.op = "invalidate", !.inst = i]
    /\ UNCHANGED <<pending, store, now, user_id, conversation_id,
                   conversation_history, system_prompt_hash, call_count, ticks,
                   admin, shared_cached, key_results>>

NextInvalidate ==
    \/ \E i \in Instances, q \in {Q_CSS, Q_MY} :
          Think(i, q, O_ANSWER, "none", "none", MaxCalls)
    \/ \E i \in Instances : Invalidate(i)
    \/ \E d \in TickSteps : Tick(d)

SpecInvalidate == Init /\ [][NextInvalidate]_vars

\* the rows a contextual-scope think of user wrote
PersonalRowsOf(st, user) ==
    {k \in DOMAIN st : /\ st[k].metadata # <<>>
                       /\ st[k].metadata[1].user_id = user
                       /\ st[k].metadata[1].scope = "contextual"}

\* C34: after invalidate(user) no personal entry of that user can be got;
\* every other row is as it was
C34_InvalidateRemovesPersonal ==
    [][ last'.op = "invalidate"
        => /\ \A k \in PersonalRowsOf(store', user_id[last'.inst]) :
                 RowState(store', k, now) # "live"
           /\ \A k \in (DOMAIN store) \ PersonalRowsOf(store, user_id[last'.inst]) :
                 k \in DOMAIN store' /\ store'[k] = store[k] ]_vars

\* C35: the think that follows an update_system_prompt which changed the
\* prompt hash of its conversation returns no cached response (every row of
\* the table was produced under an earlier prompt), neither from the content
\* key nor from the context key
C35_NoHitAfterPromptChange ==
    [][ (/\ last.op = "update_system_prompt" /\ last.changed
         /\ last'.op = "think" /\ last'.inst = last.inst)
        => last'.outcome \notin {"hit_content", "hit_context"} ]_vars

(***************************************************************************)
(* SpecPipe: two users on one store, the first with a user id that holds   *)
(* the separator of the key material, the second asking a question that    *)
(* holds it                                                                *)
(***************************************************************************)
PipeUsers == [i \in Instances |-> IF i = 1 THEN "bob|c0ffee02|empty" ELSE "bob"]

PipeQueries == {Q_MY, Str(Q_PIPE_chars), Q_CSS}

InitPipe == InitWith(PipeUsers, Convs, [i \in Instances |-> MockPrompt])

NextPipe ==
    \/ \E i \in Instances, q \in PipeQueries :
          Think(i, q, BrainOf[i], "none", "none", MaxCalls)
    \/ \E d \in TickSteps : Tick(d)

SpecPipe == InitPipe /\ [][NextPipe]_vars

\* C36: the entry a think returns from its context key was written by a
\* think of the same user
C36_ContextHitsOwnEntries ==
    [][ (last'.op = "think" /\ last'.outcome = "hit_context")
        => /\ store[last'.gets[1]].metadata # <<>>
           /\ store[last'.gets[1]].metadata[1].user_id = user_id[last'.inst] ]_vars

(***************************************************************************)
(* SpecPipeKeys: generate_keys called for the two users of SpecPipe        *)
(***************************************************************************)
NextPipeKeys ==
    \E i \in Instances, q \in PipeQueries \cup KeyQueries, h \in KeyHistories :
        GenerateKeys(i, q, h)

SpecPipeKeys == InitPipe /\ [][NextPipeKeys]_vars

\* the fields of the context-key material and of the content-key material
\* of a recorded generate_keys call
ContextFields(r) ==
    <<r.user_id, r.conversation_id, r.history_fp, NormalizeTable[r.user_query]>>

ContentFields(r) == <<r.system_prompt_hash.head8, NormalizeTable[r.user_query]>>

\* C39: two generate_keys calls whose (user, conversation id, history
\* fingerprint, normalized query) differ hash different context-key
\* materials, and two whose (prompt hash prefix, normalized query) differ hash
\* different content-key materials
C39_KeyMaterialInjective ==
    BothKeyed
    => /\ ContextFields(key_results[1][1]) # ContextFields(key_results[2][1])
            => key_results[1][1].result.context_key # key_results[2][1].result.context_key
       /\ ContentFields(key_results[1][1]) # ContentFields(key_results[2][1])
            => key_results[1][1].result.content_key # key_results[2][1].result.content_key

(***************************************************************************)
(* SpecWindow: two conversations whose producer answers or raises, and     *)
(* which are reset                                                         *)
(***************************************************************************)
WindowQueries == {Q_CSS, Q_MY}

WindowOutcomes == {O_ANSWER, O_RAISE}

NextWindow ==
    \/ \E i \in Instances, q \in WindowQueries, o \in WindowOutcomes :
          Think(i, q, o, "none", "none", MaxCalls)
    \/ \E i \in Instances : Reset(i, "c0ffee03")
    \/ \E d \in TickSteps : Tick(d)

SpecWindow == Init /\ [][NextWindow]_vars

\* the turns of a window alternate user, assistant, starting with user
Alternating(h) ==
    \A n \in DOMAIN h :
        h[n].role = (IF n % 2 = 1 THEN UserRole ELSE AssistantRole)

\* C37: a think that returns from a context-key or content-key hit leaves the
\* window and the conversation id as they were; the window grows by exactly
\* two turns when the producer returned and not at all otherwise, reset
\* empties it, and its turns alternate user, assistant: its length is twice
\* the number of producer calls that returned since the last reset
C37_HitLeavesConversation ==
    [][ /\ (last'.op = "think" /\ last'.outcome \in {"hit_context", "hit_content"})
            => /\ conversation_history' = conversation_history
               /\ conversation_id' = conversation_id
               /\ last'.producer_calls = 0
        /\ last'.op = "think"
            => /\ Len(conversation_history'[last'.inst]) =
                    Len(conversation_history[last'.inst])
                    + (IF last'.produced # <<>> THEN 2 ELSE 0)
               /\ \A j \in Instances \ {last'.inst} :
                    conversation_history'[j] = conversation_history[j]
        /\ last'.op = "reset" => conversation_history'[last'.inst] = <<>>
        /\ last'.op \notin {"think", "reset"}
            => conversation_history' = conversation_history
        /\ \A i \in Instances : Alternating(conversation_history'[i]) ]_vars

\* a think has returned from a hit in a conversation whose window holds turns
C37_Witness ==
    /\ last.op = "think"
    /\ last.outcome \in {"hit_context", "hit_content"}
    /\ Len(conversation_history[last.inst]) >= 2

(***************************************************************************)
(* SpecRepeat: one conversation repeating one contextual query to a        *)
(* producer that answers, on a store another client writes to; the caller  *)
(* keeps asking                                                            *)
(***************************************************************************)
RepeatThink == Think(1, Q_MY, O_ANSWER, "none", "none", MaxCallsShadow)

NextRepeat ==
    \/ RepeatThink
    \/ \E k \in TableKeys, ttl \in TableTtls : StoreSet(k, O_TOOLS.result, ttl)
    \/ \E d \in TickSteps : Tick(d)

SpecRepeat == Init /\ [][NextRepeat]_vars /\ WF_vars(RepeatThink)

\* the last operation was a think answered from the context key
RepeatHit == last.op = "think" /\ last.inst = 1 /\ last.outcome = "hit_context"

\* the entry under the context key of the next repetition is there and has
\* not expired
RepeatEntryLive ==
    \E k \in {KeysOfThink(1, Q_MY).context_key[1]} :
        /\ k \in DOMAIN store
        /\ ~(now > store[k].expires_at)

====
